---- MODULE Spec2Model ----
(***************************************************************************)
(* vaultfs: a remote secret store presented as a read-only userspace       *)
(* filesystem.  The model covers the authenticated backend                 *)
(* (vaultapi.vaultBackend), the Secret Directory Node (fs.SecretDir) and   *)
(* the nodes it hands out.                                                  *)
(*                                                                         *)
(* Representation.  A Go string is a sequence of one-character strings;   *)
(* only the names of Go types, client methods, authentication methods and  *)
(* node kinds are TLA+ strings.  A lookupPath is the sequence of its       *)
(* components.                                                             *)
(* The remote store is the environment: every call to it draws its answer  *)
(* from a bounded set, so the store may answer differently at every call.  *)
(***************************************************************************)
EXTENDS Integers, Sequences, FiniteSets

VARIABLES
    phase,       \* "new" before fs.New, "ready" once it returned a host, "failed" otherwise
    authMethod,  \* vaultBackend.authMethod
    token,       \* vaultBackend.token
    clientToken, \* the token last set on the api client (client.SetToken)
    node,        \* the node the kernel currently holds
    result,      \* what the last kernel operation returned, and the backend calls it made
    trail,       \* the names of the Lookups that led the kernel from the root to node
    remote,      \* what the remote store holds, where it is followed path by path
    last,        \* the operation before the last one, where it is kept
    tasks        \* the probes that run beside each other, where they are followed step by step

vars == <<phase, authMethod, token, clientToken, node, result, trail, remote, last, tasks>>

-----------------------------------------------------------------------------
(* Bounds *)

\* Longest lookupPath (in components, the root prefix included) a node may have.
MaxDepth == 2

\* The same, where the remote store is followed path by path.
StoreDepth == 3
\* the longest buffer of a Static Value that is read piecewise
MaxValueLen == 2
\* the most wrapper layers of an error that is narrowed again
MaxWraps == 3
\* the probes that run beside each other
MaxTasks == 2

-----------------------------------------------------------------------------
(* Text helpers (strings.Join, strings.TrimRight, fmt.Sprintf("%v", ...)) *)

Digits == <<"0", "1", "2", "3", "4", "5", "6", "7", "8", "9">>

RECURSIVE FormatNat(_)
FormatNat(n) ==
    IF n < 10 THEN <<Digits[n + 1]>>
    ELSE FormatNat(n \div 10) \o <<Digits[(n % 10) + 1]>>

\* fmt.Sprintf("%v", i) for an int
FormatInt(n) == IF n < 0 THEN <<"-">> \o FormatNat(-n) ELSE FormatNat(n)

\* fmt.Sprintf("%v", b) for a bool
FormatBool(b) == IF b THEN <<"t", "r", "u", "e">> ELSE <<"f", "a", "l", "s", "e">>

\* strings.Join(elems, sep)
RECURSIVE Join(_, _)
Join(elems, sep) ==
    IF Len(elems) = 0 THEN <<>>
    ELSE IF Len(elems) = 1 THEN elems[1]
    ELSE elems[1] \o sep \o Join(Tail(elems), sep)

\* strings.TrimRight(s, cutset) for a one-character cutset
RECURSIVE TrimRight(_, _)
TrimRight(s, c) ==
    IF Len(s) > 0 /\ s[Len(s)] = c THEN TrimRight(SubSeq(s, 1, Len(s) - 1), c)
    ELSE s

Newline == <<"\n">>

-----------------------------------------------------------------------------
(* Dynamic values (interface{}) found in api.Secret.Data *)

StringV(s) == [t |-> "string", s |-> s, l |-> <<>>, m |-> {}]
NumberV == [t |-> "number", s |-> <<>>, l |-> <<>>, m |-> {}]
ListV(l) == [t |-> "list", s |-> <<>>, l |-> l, m |-> {}]

\* A Go map is a set of key/value pairs with distinct keys.
KV(k, v) == [k |-> k, v |-> v]
Found(m, k) == k \in {e.k : e \in m}
Get(m, k) == (CHOOSE e \in m : e.k = k).v

\* map[string]interface{} that may be nil
NilMap == [nil |-> TRUE, m |-> {}]
MakeMap(m) == [nil |-> FALSE, m |-> m]

-----------------------------------------------------------------------------
(* api.Secret *)

NoAuth == [nil |-> TRUE, ClientToken |-> <<>>, Accessor |-> <<>>, Policies |-> <<>>,
           Metadata |-> {}, LeaseDuration |-> 0, Renewable |-> FALSE]
SomeAuth(tok, acc, pol, md, dur, ren) ==
    [nil |-> FALSE, ClientToken |-> tok, Accessor |-> acc, Policies |-> pol,
     Metadata |-> md, LeaseDuration |-> dur, Renewable |-> ren]

NoWrapInfo == [nil |-> TRUE, Token |-> <<>>, TTL |-> 0, CreationTime |-> <<>>,
               WrappedAccessor |-> <<>>]
SomeWrapInfo(tok, ttl, created, acc) ==
    [nil |-> FALSE, Token |-> tok, TTL |-> ttl, CreationTime |-> created,
     WrappedAccessor |-> acc]

MkSecret(id, dur, ren, data, warn, auth, wrap) ==
    [LeaseID |-> id, LeaseDuration |-> dur, Renewable |-> ren, Data |-> data,
     Warnings |-> warn, Auth |-> auth, WrapInfo |-> wrap]


\* *api.Secret
NilSecret == [nil |-> TRUE, s |-> MkSecret(<<>>, 0, FALSE, NilMap, <<>>, NoAuth, NoWrapInfo)]
Ptr(s) == [nil |-> FALSE, s |-> s]

-----------------------------------------------------------------------------
(* The error taxonomy of package vaultapi.  An error is the chain of its   *)
(* wrappers' concrete Go types, outermost first, over a cause: the raw     *)
(* error of the remote-store client (or no cause at all).  Of a raw        *)
(* error's text only this matters: whether it contains the two substrings  *)
(* narrowVaultError looks for, and which of the two phrases it says at all, *)
(* with or without the "* " that the remote store's API puts before them.   *)

NilErr ==
    [nil |-> TRUE, types |-> <<>>,
     cause |-> [present |-> FALSE, pd |-> FALSE, mct |-> FALSE, said |-> {}]]

\* A raw client error whose text contains "* permission denied" iff pd and
\* "* missing client token" iff mct, and says the phrases of said somewhere.
RawErr(pd, mct, said) ==
    [nil |-> FALSE, types |-> <<>>,
     cause |-> [present |-> TRUE, pd |-> pd, mct |-> mct, said |-> said]]

TypeErrVaultInaccessible == "vaultapi.ErrVaultInaccessible"

\* T{inner}: a wrapper value of type T around inner (inner may be nil).
WrapErr(T, inner) ==
    [nil |-> FALSE, types |-> <<T>> \o inner.types, cause |-> inner.cause]

ErrAuth(inner) == WrapErr("vaultapi.ErrAuth", inner)
ErrAuthFailed(inner) == WrapErr("vaultapi.ErrAuthFailed", inner)
ErrPermissionDenied(inner) == WrapErr("vaultapi.ErrPermissionDenied", inner)
ErrMissingClientToken(inner) == WrapErr("vaultapi.ErrMissingClientToken", inner)
ErrVaultInaccessible(inner) == WrapErr(TypeErrVaultInaccessible, inner)

\* strings.Contains(err.Error(), "* permission denied").  The wrappers' own
\* Error() texts ("authentication error", "permission denied", ...) are fixed
\* and carry no "* ", so only a bare raw error can match.
TextHasPermissionDenied(err) == err.types = <<>> /\ err.cause.pd

\* strings.Contains(err.Error(), "* missing client token")
TextHasMissingClientToken(err) == err.types = <<>> /\ err.cause.mct

\* A faulty narrowing: the second test is not negated.
narrowVaultError_Uninverted(err) ==
    IF TextHasPermissionDenied(err) THEN ErrAuth(ErrPermissionDenied(err))
    ELSE IF TextHasMissingClientToken(err) THEN ErrAuth(ErrMissingClientToken(err))
    ELSE ErrVaultInaccessible(err)

narrowVaultError(err) ==
    IF TextHasPermissionDenied(err) THEN ErrAuth(ErrPermissionDenied(err))
    ELSE IF ~TextHasMissingClientToken(err) THEN ErrAuth(ErrMissingClientToken(err))
    ELSE ErrVaultInaccessible(err)

\* errwrap.ContainsType(err, v): some error of the chain has the same concrete
\* type as v.  The wrappers are built and returned as struct values, so their
\* concrete types are the plain type names above; a raw client error has a
\* type of the client library, which is none of the vaultapi types.
ContainsType(err, searchType) ==
    /\ ~err.nil
    /\ \E i \in 1..Len(err.types) : err.types[i] = searchType

-----------------------------------------------------------------------------
(* What the remote store may answer.  A response is (secret, err), as      *)
(* api.Logical returns it: a secret, nothing (404), or a raw error.        *)

Resp(secret, err) == [secret |-> secret, err |-> err]
NoResp == Resp(NilSecret, NilErr)

\* 403 from the store: "... * permission denied"
PermissionDeniedErr == RawErr(TRUE, FALSE, {"permission denied"})

\* The raw errors of the remote store: a network failure, whose text has neither
\* phrase; the 403; and the 400 "... * missing client token"
RawErrors ==
    {RawErr(FALSE, FALSE, {}), PermissionDeniedErr, RawErr(FALSE, TRUE, {"missing client token"})}

W1 == <<"e", "s">>
W2 == <<"l", "a">>

SecretPlain == MkSecret(<<>>, 0, FALSE, NilMap, <<>>, NoAuth, NoWrapInfo)
SecretFull ==
    MkSecret(<<"l", "1">>, 3600, TRUE,
             MakeMap({KV(<<"s">>, StringV(<<"x">>)), KV(<<"n">>, NumberV)}),
             <<W1, W2>>,
             SomeAuth(<<"t", "9">>, <<"a", "c">>, <<<<"p", "1">>, <<"p", "2">>>>,
                      {KV(<<"u">>, <<"m">>)}, 60, TRUE),
             SomeWrapInfo(<<"w", "t">>, 30, <<"T", "0">>, <<"w", "a">>))
SecretWarn ==
    MkSecret(<<"l", "2">>, -7, FALSE,
             MakeMap({KV(<<"u", "s", "e", "r">>, StringV(<<"a", "l">>))}),
             <<W2>>, NoAuth, NoWrapInfo)

ReadSecrets == {SecretPlain, SecretFull, SecretWarn}

KeysField == <<"k", "e", "y", "s">>

ListOf(data) == MkSecret(<<>>, 0, FALSE, data, <<>>, NoAuth, NoWrapInfo)
KeyPlain == <<"k", "1">>

ListSecrets ==
    { ListOf(NilMap),
      ListOf(MakeMap({})),
      ListOf(MakeMap({KV(KeysField, [t |-> "nil", s |-> <<>>, l |-> <<>>, m |-> {}])})),
      ListOf(MakeMap({KV(KeysField, ListV(<<>>))})),
      ListOf(MakeMap({KV(KeysField, StringV(<<"c", "a">>))})),
      ListOf(MakeMap({KV(KeysField, ListV(<<StringV(<<"d", "b", "/">>), StringV(<<"c", "a">>)>>))})),
      ListOf(MakeMap({KV(KeysField, ListV(<<StringV(<<"k", "1", "/", "/">>), NumberV, StringV(<<"d", "b", "/">>)>>))})) }

LoginSecret(tok) ==
    MkSecret(<<>>, 0, FALSE, NilMap, <<>>,
             SomeAuth(tok, <<>>, <<>>, {}, 0, FALSE), NoWrapInfo)

\* a login answer with a token, and one with no auth envelope
LoginSecrets == {LoginSecret(<<"t", "1">>), SecretPlain}

Responses(secrets) ==
    {NoResp} \cup {Resp(Ptr(s), NilErr) : s \in secrets}
             \cup {Resp(NilSecret, e) : e \in RawErrors}

RemoteLoginResps == Responses(LoginSecrets)

\* A remote store that is not followed: any answer may come at any call.
AnyStore == <<>>

\* A remote store whose login may also hand out an empty client token, so that an
\* operation can meet a backend that holds no token; its answers are kept few.
BlankLoginStore == <<"blank login">>

\* A remote store that is followed holds, for each of a few paths, what it answers
\* to a Read and to a List of the path; any other path is missing from it.
Held(read, list) == [read |-> read, list |-> list]
Listed == Resp(Ptr(ListOf(MakeMap({KV(KeysField, ListV(<<StringV(KeyPlain)>>))}))), NilErr)
Denial == Resp(NilSecret, PermissionDeniedErr)
Missing == Held(NoResp, NoResp)
Holdings ==
    {Missing, Held(Denial, Denial), Held(NoResp, Listed),
     Held(Resp(Ptr(SecretWarn), NilErr), Listed)}

HeldAt(path) == IF path \in DOMAIN remote THEN remote[path] ELSE Missing

\* What b.logical.Read(path) and b.logical.List(path) may answer
ReadAnswers(path) ==
    IF remote = AnyStore THEN Responses(ReadSecrets)
    ELSE IF remote = BlankLoginStore THEN {NoResp, Denial, Resp(Ptr(SecretWarn), NilErr)}
    ELSE {HeldAt(path).read}
ListAnswers(path) ==
    IF remote = AnyStore THEN Responses(ListSecrets)
    ELSE IF remote = BlankLoginStore THEN {NoResp, Denial, Listed}
    ELSE {HeldAt(path).list}

\* What a login (a Write of the method's login path) may answer
LoginAnswers ==
    IF remote = BlankLoginStore
    THEN {NoResp, Denial, Resp(Ptr(SecretPlain), NilErr),
          Resp(Ptr(LoginSecret(<<>>)), NilErr), Resp(Ptr(LoginSecret(<<"t", "1">>)), NilErr)}
    ELSE RemoteLoginResps

\* One call to the remote store as the operation's log keeps it: the client
\* method, the remote path, the payload ("nil" or "password"), whether the
\* answer held a secret, and the raw error of the answer.
Call(op, path, payload, resp) ==
    [op |-> op, path |-> path, payload |-> payload,
     secret |-> ~resp.secret.nil, err |-> resp.err]

-----------------------------------------------------------------------------
(* vaultapi.vaultBackend.  b is the backend's mutable part: its token and  *)
(* the token set on its client.  Each operation is a function of b, the    *)
(* configured method and the answers the remote store gives to the calls   *)
(* the operation makes; it yields what it returns, the new b and the calls *)
(* made.  A nil dereference ends the operation (panic).                    *)

AuthMethods == {"cert", "ldap", "approle"}

Backend(tok, client) == [token |-> tok, client |-> client]

Outcome(secret, err, b, panic, calls) ==
    [secret |-> secret, err |-> err, b |-> b, panic |-> panic, calls |-> calls]

\* The login request of Auth for a method: <<path, payload>>; none for a method
\* the switch has no case for.
LoginRequest(method) ==
    CASE method = "cert" -> <<<<<<"a", "u", "t", "h">>, <<"c", "e", "r", "t">>, <<"l", "o", "g", "i", "n">>>>, "nil">>
      [] method = "ldap" -> <<<<<<"a", "u", "t", "h">>, <<"l", "d", "a", "p">>, <<"l", "o", "g", "i", "n">>, <<"b", "o", "b">>>>,
                               "password">>
      [] OTHER -> <<<<>>, "nil">>


\* A faulty Auth: the login is made whether or not a token is held.
Auth_AlwaysLogsIn(b, method, lr) ==
    LET calls == <<Call("Write", LoginRequest(method)[1], LoginRequest(method)[2], lr)>>
    IN IF ~lr.err.nil THEN Outcome(NilSecret, ErrAuthFailed(lr.err), b, FALSE, calls)
       ELSE IF lr.secret.nil THEN Outcome(NilSecret, ErrAuthFailed(NilErr), b, FALSE, calls)
       ELSE IF lr.secret.s.Auth.nil THEN Outcome(NilSecret, NilErr, b, TRUE, calls)
       ELSE Outcome(NilSecret, NilErr,
                    Backend(lr.secret.s.Auth.ClientToken, lr.secret.s.Auth.ClientToken),
                    FALSE, calls)

\* A faulty Auth: a login that fails or returns nothing still ends with the
\* (empty) token set on the client and with the login's own error.
Auth_SetsTokenAnyway(b, method, lr) ==
    IF b.token = <<>>
    THEN LET made == method \in {"cert", "ldap"}
             got == IF made THEN lr ELSE NoResp
             calls == IF made
                      THEN <<Call("Write", LoginRequest(method)[1],
                                  LoginRequest(method)[2], lr)>>
                      ELSE <<>>
         IN IF ~got.err.nil
            THEN Outcome(NilSecret, got.err, Backend(b.token, b.token), FALSE, calls)
            ELSE IF got.secret.nil
            THEN Outcome(NilSecret, ErrAuthFailed(NilErr), Backend(b.token, b.token),
                         FALSE, calls)
            ELSE IF got.secret.s.Auth.nil
            THEN Outcome(NilSecret, NilErr, b, TRUE, calls)
            ELSE LET tok == got.secret.s.Auth.ClientToken
                 IN Outcome(NilSecret, NilErr, Backend(tok, tok), FALSE, calls)
    ELSE Outcome(NilSecret, NilErr, Backend(b.token, b.token), FALSE, <<>>)

\* vaultBackend.Auth; lr is the remote store's answer to the login, if one is made.
Auth(b, method, lr) ==
    IF b.token = <<>>
    THEN LET made == method \in {"cert", "ldap"}
             got == IF made THEN lr ELSE NoResp
             calls == IF made
                      THEN <<Call("Write", LoginRequest(method)[1],
                                  LoginRequest(method)[2], lr)>>
                      ELSE <<>>
         IN IF ~got.err.nil
            THEN Outcome(NilSecret, ErrAuthFailed(got.err), b, FALSE, calls)
            ELSE IF got.secret.nil
            THEN Outcome(NilSecret, ErrAuthFailed(NilErr), b, FALSE, calls)
            ELSE IF got.secret.s.Auth.nil
            THEN Outcome(NilSecret, NilErr, b, TRUE, calls)
            ELSE LET tok == got.secret.s.Auth.ClientToken
                 IN Outcome(NilSecret, NilErr, Backend(tok, tok), FALSE, calls)
    ELSE Outcome(NilSecret, NilErr, Backend(b.token, b.token), FALSE, <<>>)

\* The shape shared by vaultBackend.Read, List, Write, Delete and Unwrap: log in
\* if no token is held, then make the call and narrow its error.
\* A faulty operation: the remote call is made although Auth has failed.
backendOp_CallsAnyway(op, b, method, path, lr, rr) ==
    LET a == IF b.token = <<>> THEN Auth(b, method, lr)
             ELSE Outcome(NilSecret, NilErr, b, FALSE, <<>>)
    IN IF a.panic THEN a
       ELSE Outcome(rr.secret,
                    IF rr.err.nil THEN NilErr ELSE narrowVaultError(rr.err),
                    a.b, FALSE,
                    a.calls \o <<Call(op, path, "nil", rr)>>)

\* A faulty operation: an answer that narrows to an Auth error makes the backend
\* drop its token, so that the next operation logs in again.
backendOp_DropsDeniedToken(op, b, method, path, lr, rr) ==
    LET a == IF b.token = <<>> THEN Auth(b, method, lr)
             ELSE Outcome(NilSecret, NilErr, b, FALSE, <<>>)
        err == IF rr.err.nil THEN NilErr ELSE narrowVaultError(rr.err)
    IN IF a.panic \/ ~a.err.nil THEN a
       ELSE Outcome(rr.secret, err,
                    IF ~err.nil /\ err.types[1] # TypeErrVaultInaccessible
                    THEN Backend(<<>>, a.b.client) ELSE a.b,
                    FALSE,
                    a.calls \o <<Call(op, path, "nil", rr)>>)

backendOp(op, b, method, path, lr, rr) ==
    LET a == IF b.token = <<>> THEN Auth(b, method, lr)
             ELSE Outcome(NilSecret, NilErr, b, FALSE, <<>>)
    IN IF a.panic \/ ~a.err.nil THEN a
       ELSE Outcome(rr.secret,
                    IF rr.err.nil THEN NilErr ELSE narrowVaultError(rr.err),
                    a.b, FALSE,
                    a.calls \o <<Call(op, path, "nil", rr)>>)

Read(b, method, path, lr, rr) == backendOp("Read", b, method, path, lr, rr)
List(b, method, path, lr, rr) == backendOp("List", b, method, path, lr, rr)

\* The login answers an operation can meet: none is asked for when a token is held
\* or the method has no login.
LoginChoices(b, method) ==
    IF b.token = <<>> /\ method \in {"cert", "ldap"} THEN LoginAnswers ELSE {NoResp}

ReadOutcomes(b, method, path) ==
    {Read(b, method, path, lr, rr) : lr \in LoginChoices(b, method), rr \in ReadAnswers(path)}

ListOutcomes(b, method, path) ==
    {List(b, method, path, lr, rr) : lr \in LoginChoices(b, method), rr \in ListAnswers(path)}

-----------------------------------------------------------------------------
(* fs.SecretDir: the probe *)

SecretTypeBackendError == "BackendError"
SecretTypeInaccessible == "Inaccessible"
SecretTypeNonExistent == "NonExistent"
SecretTypeDirectory == "Directory"
SecretTypeSecret == "Secret"
SecretTypes == {SecretTypeBackendError, SecretTypeInaccessible, SecretTypeNonExistent,
                SecretTypeDirectory, SecretTypeSecret}

\* What lookup returns (type, secret), with the backend it leaves and its calls.
\* type "panic": the probe did not return.
Probe(type, secret, b, calls) ==
    [type |-> type, secret |-> secret, b |-> b, calls |-> calls]

\* errwrap.ContainsType(err, new(vaultapi.ErrVaultInaccessible))
IsVaultInaccessible(err) == ContainsType(err, "*" \o TypeErrVaultInaccessible)

\* A faulty lookupAfterRead: the path is listed although the Read found a secret,
\* so a path that is both is taken for a directory.
lookupAfterRead_ListsAnyway(rd) ==
    IF ~rd.err.nil /\ IsVaultInaccessible(rd.err) THEN SecretTypeBackendError
    ELSE "List"

\* lookup after Read returned rd: the type it returns at once, or "List" when it
\* goes on to list the path.
lookupAfterRead(rd) ==
    IF ~rd.err.nil /\ IsVaultInaccessible(rd.err) THEN SecretTypeBackendError
    ELSE IF ~rd.secret.nil THEN SecretTypeSecret
    ELSE "List"

\* A faulty lookupAfterList: every error of List is taken for a connection
\* failure, so a denied listing is fatal instead of an Inaccessible placeholder.
lookupAfterList_AnyErrorFatal(ls) ==
    IF ~ls.err.nil THEN SecretTypeBackendError
    ELSE IF ~ls.secret.nil THEN SecretTypeDirectory
    ELSE SecretTypeNonExistent

\* lookup after List returned ls
lookupAfterList(ls) ==
    IF ~ls.err.nil
    THEN IF IsVaultInaccessible(ls.err) THEN SecretTypeBackendError
         ELSE SecretTypeInaccessible
    ELSE IF ~ls.secret.nil THEN SecretTypeDirectory
    ELSE SecretTypeNonExistent

\* SecretDir.lookup(ctx, lookupPath) when Read returned rd and List, if lookup
\* came to call it, returned ls.
lookupWith(rd, ls) ==
    IF rd.panic THEN Probe("panic", NilSecret, rd.b, rd.calls)
    ELSE IF lookupAfterRead(rd) = SecretTypeBackendError
    THEN Probe(SecretTypeBackendError, NilSecret, rd.b, rd.calls)
    ELSE IF lookupAfterRead(rd) = SecretTypeSecret
    THEN Probe(SecretTypeSecret, rd.secret, rd.b, rd.calls)
    ELSE IF ls.panic THEN Probe("panic", NilSecret, ls.b, rd.calls \o ls.calls)
    ELSE Probe(lookupAfterList(ls),
               IF lookupAfterList(ls) = SecretTypeDirectory THEN ls.secret ELSE NilSecret,
               ls.b, rd.calls \o ls.calls)

\* Whether lookup calls List after Read returned rd
CallsList(rd) == ~rd.panic /\ lookupAfterRead(rd) = "List"

\* The outcome standing for a call that was not made
NotCalled(b) == Outcome(NilSecret, NilErr, b, FALSE, <<>>)

\* SecretDir.lookup(ctx, lookupPath): every result the remote store's answers allow.
\* A faulty lookup: a path last seen missing or denied is remembered so, and
\* the remote store is not asked again.
lookup_Remembered(b, method, lookupPath) ==
    IF /\ last.path = lookupPath
       /\ last.type \in {SecretTypeNonExistent, SecretTypeInaccessible}
    THEN {Probe(last.type, NilSecret, b, <<>>)}
    ELSE UNION {
        IF CallsList(rd)
        THEN {lookupWith(rd, ls) : ls \in ListOutcomes(rd.b, method, lookupPath)}
        ELSE {lookupWith(rd, NotCalled(rd.b))}
        : rd \in ReadOutcomes(b, method, lookupPath) }

lookup(b, method, lookupPath) ==
    UNION {
        IF CallsList(rd)
        THEN {lookupWith(rd, ls) : ls \in ListOutcomes(rd.b, method, lookupPath)}
        ELSE {lookupWith(rd, NotCalled(rd.b))}
        : rd \in ReadOutcomes(b, method, lookupPath) }

-----------------------------------------------------------------------------
(* Nodes *)

Node(kind, lookupPath, value, entries) ==
    [kind |-> kind, lookupPath |-> lookupPath, value |-> value, entries |-> entries]

NoNode == Node("none", <<>>, <<>>, {})
SecretDirNode(lookupPath) == Node("SecretDir", lookupPath, <<>>, {})
StaticValueNode(value) == Node("StaticValue", <<>>, value, {})
StaticDirNode(entries) == Node("StaticDir", <<>>, <<>>, entries)

\* A constructor's (node, error)
Made(n) == [node |-> n, err |-> "nil"]
Failed(err) == [node |-> NoNode, err |-> err]

\* NewSecretDir(fs, lookupPath); fsIsNil: the host pointer is nil
NewSecretDir(fsIsNil, lookupPath) ==
    IF lookupPath = <<>> THEN Failed("error")
    ELSE IF fsIsNil THEN Failed("error")
    ELSE Made(SecretDirNode(lookupPath))

\* NewValue(value)
NewValue(value) == Made(StaticValueNode(value))

\* NewStaticDir(mapping): the tree of a nested mapping, each string a Static Value
\* and each nested mapping a Static Directory; a leaf of any other type is
\* rejected; a nil mapping gives an empty directory.
RECURSIVE StaticTree(_)
StaticTree(m) ==
    {KV(e.k, IF e.v.t = "string" THEN StaticValueNode(e.v.s)
             ELSE StaticDirNode(StaticTree(e.v.m))) : e \in m}

RECURSIVE ValidTree(_)
ValidTree(m) ==
    \A e \in m : \/ e.v.t = "string"
                 \/ e.v.t = "map" /\ ValidTree(e.v.m)

NewStaticDir(mapping) ==
    IF mapping.nil THEN Made(StaticDirNode({}))
    ELSE IF ~ValidTree(mapping.m) THEN Failed("error")
    ELSE Made(StaticDirNode(StaticTree(mapping.m)))

-----------------------------------------------------------------------------
(* fs.SecretDir: the fixed entries of a secret *)

NameLeaseId == <<"l", "e", "a", "s", "e", "_", "i", "d">>
NameLeaseDuration == <<"l", "e", "a", "s", "e", "_", "d", "u", "r", "a", "t", "i", "o", "n">>
NameRenewable == <<"r", "e", "n", "e", "w", "a", "b", "l", "e">>
NameData == <<"d", "a", "t", "a">>
NameWarnings == <<"w", "a", "r", "n", "i", "n", "g", "s">>
NameAuth == <<"a", "u", "t", "h">>
NameWrapInfo == <<"w", "r", "a", "p", "_", "i", "n", "f", "o">>

Dirent(name, type) == [Name |-> name, Inode |-> 0, Type |-> type]

\* The static map, as the sequence of its entries in declaration order; a Go map
\* has no order of its own.
secretDirEntrys ==
    << Dirent(NameLeaseId, "DT_File"),
       Dirent(NameLeaseDuration, "DT_File"),
       Dirent(NameRenewable, "DT_File"),
       Dirent(NameData, "DT_Dir"),
       Dirent(NameWarnings, "DT_File"),
       Dirent(NameAuth, "DT_Dir"),
       Dirent(NameWrapInfo, "DT_Dir") >>

EntryNames == {secretDirEntrys[i].Name : i \in DOMAIN secretDirEntrys}

\* A faulty dataSubdir: every entry of secret.Data is handed on, whatever its type.
dataSubdir_EveryEntry(secret) == MakeMap(secret.Data.m)

\* lookupSecret's "data" case: the string-valued entries of secret.Data
dataSubdir(secret) == MakeMap({e \in secret.Data.m : e.v.t = "string"})

\* lookupSecret's "auth" case for a secret that has an auth envelope
authDir(secret) ==
    MakeMap({ KV(<<"c", "l", "i", "e", "n", "t", "_", "t", "o", "k", "e", "n">>, StringV(secret.Auth.ClientToken)),
              KV(<<"a", "c", "c", "e", "s", "s", "o", "r">>, StringV(secret.Auth.Accessor)),
              KV(<<"p", "o", "l", "i", "c", "i", "e", "s">>, StringV(Join(secret.Auth.Policies, Newline))),
              KV(<<"m", "e", "t", "a", "d", "a", "t", "a">>,
                 [t |-> "map", s |-> <<>>, l |-> <<>>,
                  m |-> {KV(e.k, StringV(e.v)) : e \in secret.Auth.Metadata}]),
              KV(NameLeaseDuration, StringV(FormatInt(secret.Auth.LeaseDuration))),
              KV(NameRenewable, StringV(FormatBool(secret.Auth.Renewable))) })

\* lookupSecret's "wrap_info" case for a secret that has a wrapping envelope.
\* CreationTime is kept as the text its String() yields.
wrapInfoDir(secret) ==
    MakeMap({ KV(<<"t", "o", "k", "e", "n">>, StringV(secret.WrapInfo.Token)),
              KV(<<"t", "t", "l">>, StringV(FormatInt(secret.WrapInfo.TTL))),
              KV(<<"c", "r", "e", "a", "t", "i", "o", "n", "_", "t", "i", "m", "e">>, StringV(secret.WrapInfo.CreationTime)),
              KV(<<"w", "r", "a", "p", "p", "e", "d", "_", "a", "c", "c", "e", "s", "s", "o", "r">>, StringV(secret.WrapInfo.WrappedAccessor)) })

\* A faulty lookupSecret: a name outside the fixed entries is handed on as a
\* child path instead of being refused.
lookupSecret_UnknownNameDescends(secret, name) ==
    IF name \notin EntryNames THEN Made(SecretDirNode(<<name>>))
    ELSE CASE name = NameLeaseId -> NewValue(secret.LeaseID)
           [] name = NameLeaseDuration -> NewValue(FormatInt(secret.LeaseDuration))
           [] name = NameRenewable -> NewValue(FormatBool(secret.Renewable))
           [] name = NameWarnings -> NewValue(Join(secret.Warnings, Newline))
           [] OTHER -> NewStaticDir(NilMap)

\* A faulty lookupSecret: "auth" and "wrap_info" are missing entries for a secret
\* that carries no such envelope.
lookupSecret_AbsentEnvelopeMissing(secret, name) ==
    IF name \notin EntryNames THEN Failed("ENOENT")
    ELSE CASE name = NameLeaseId -> NewValue(secret.LeaseID)
           [] name = NameLeaseDuration -> NewValue(FormatInt(secret.LeaseDuration))
           [] name = NameRenewable -> NewValue(FormatBool(secret.Renewable))
           [] name = NameWarnings -> NewValue(Join(secret.Warnings, Newline))
           [] name = NameData -> NewStaticDir(dataSubdir(secret))
           [] name = NameAuth ->
                IF secret.Auth.nil THEN Failed("ENOENT")
                ELSE NewStaticDir(authDir(secret))
           [] name = NameWrapInfo ->
                IF secret.WrapInfo.nil THEN Failed("ENOENT")
                ELSE NewStaticDir(wrapInfoDir(secret))
           [] OTHER -> Failed("ENOENT")

\* A faulty lookupSecret: every warning is followed by a newline, so the file
\* ends with one.
lookupSecret_TrailingNewline(secret, name) ==
    IF name \notin EntryNames THEN Failed("ENOENT")
    ELSE CASE name = NameLeaseId -> NewValue(secret.LeaseID)
           [] name = NameLeaseDuration -> NewValue(FormatInt(secret.LeaseDuration))
           [] name = NameRenewable -> NewValue(FormatBool(secret.Renewable))
           [] name = NameWarnings ->
                NewValue(IF secret.Warnings = <<>> THEN <<>>
                         ELSE Join(secret.Warnings, Newline) \o Newline)
           [] OTHER -> NewStaticDir(NilMap)

\* SecretDir.lookupSecret(ctx, secret, name)
lookupSecret(secret, name) ==
    IF name \notin EntryNames THEN Failed("ENOENT")
    ELSE CASE name = NameLeaseId -> NewValue(secret.LeaseID)
           [] name = NameLeaseDuration -> NewValue(FormatInt(secret.LeaseDuration))
           [] name = NameRenewable -> NewValue(FormatBool(secret.Renewable))
           [] name = NameWarnings -> NewValue(Join(secret.Warnings, Newline))
           [] name = NameData -> NewStaticDir(dataSubdir(secret))
           [] name = NameAuth ->
                IF secret.Auth.nil THEN NewStaticDir(NilMap)
                ELSE NewStaticDir(authDir(secret))
           [] name = NameWrapInfo ->
                IF secret.WrapInfo.nil THEN NewStaticDir(NilMap)
                ELSE NewStaticDir(wrapInfoDir(secret))
           [] OTHER -> Failed("ENOENT")

-----------------------------------------------------------------------------
(* fs.SecretDir: the kernel operations.  Each yields the set of its        *)
(* possible returns, one for every way the remote store can answer the     *)
(* calls it makes, each with the backend it leaves.                        *)

\* os.FileMode permission bits, written in octal in the source
Octal(u, g, o) == u * 64 + g * 8 + o

\* fuse.Attr as the handler is given it: the zero value
ZeroAttr == [ModeDir |-> FALSE, Perm |-> 0, Uid |-> 0, Gid |-> 0, Size |-> 0]

\* What a kernel operation on the node with lookupPath path returned: its error
\* ("nil", "EIO", "ENOENT", "error" for any other Go error, "panic" when the
\* handler did not return), the attributes, dirents or node it produced; and what
\* it did on the way: the type its probe of the node's own path returned, the
\* probed secret if it went on to read it, the type of the child probe ("none"
\* if not made), the backend calls made.
Result(op, path, name, err, attr, dirents, child, type, secret, childType, calls) ==
    [op |-> op, path |-> path, name |-> name, err |-> err, attr |-> attr,
     dirents |-> dirents, child |-> child, type |-> type, secret |-> secret,
     childType |-> childType, calls |-> calls]

NoResult ==
    Result("none", <<>>, <<>>, "nil", ZeroAttr, <<>>, NoNode, "none", NilSecret, "none", <<>>)

Panicked(op, path, name, type, calls) ==
    Result(op, path, name, "panic", ZeroAttr, <<>>, NoNode, type, NilSecret, "none", calls)

KOut(res, b) == [res |-> res, b |-> b]

\* A faulty PathJoin: the child's path is the name alone, the parent's path lost.
PathJoin_NameOnly(lookupPath, name) == <<name>>

\* path.Join(s.lookupPath, name) for a kernel name (one component, never "." or "..")
PathJoin(lookupPath, name) == Append(lookupPath, name)

\* A faulty AttrSwitch: an Inaccessible node is shown readable (0555).
AttrSwitch_InaccessibleReadable(type) ==
    LET a == [ZeroAttr EXCEPT !.Uid = 0, !.Gid = 0]
    IN CASE type = SecretTypeBackendError -> [err |-> "EIO", attr |-> a]
         [] type = SecretTypeNonExistent -> [err |-> "ENOENT", attr |-> a]
         [] type \in {SecretTypeInaccessible, SecretTypeDirectory, SecretTypeSecret} ->
              [err |-> "nil", attr |-> [a EXCEPT !.ModeDir = TRUE, !.Perm = Octal(5, 5, 5)]]
         [] OTHER -> [err |-> "EIO", attr |-> a]

\* The switch of SecretDir.Attr on the probed type, after a.Uid = 0, a.Gid = 0
\* A faulty switch: the backend's error of a denied probe is handed on as it is.
AttrSwitch_DeniedPassesError(type) ==
    LET a == [ZeroAttr EXCEPT !.Uid = 0, !.Gid = 0]
    IN CASE type = SecretTypeBackendError -> [err |-> "EIO", attr |-> a]
         [] type = SecretTypeNonExistent -> [err |-> "ENOENT", attr |-> a]
         [] type = SecretTypeInaccessible -> [err |-> "error", attr |-> a]
         [] type \in {SecretTypeDirectory, SecretTypeSecret} ->
              [err |-> "nil", attr |-> [a EXCEPT !.ModeDir = TRUE, !.Perm = Octal(5, 5, 5)]]
         [] OTHER -> [err |-> "EIO", attr |-> a]

AttrSwitch(type) ==
    LET a == [ZeroAttr EXCEPT !.Uid = 0, !.Gid = 0]
    IN CASE type = SecretTypeBackendError -> [err |-> "EIO", attr |-> a]
         [] type = SecretTypeNonExistent -> [err |-> "ENOENT", attr |-> a]
         [] type = SecretTypeInaccessible ->
              [err |-> "nil", attr |-> [a EXCEPT !.ModeDir = TRUE, !.Perm = Octal(1, 1, 1)]]
         [] type \in {SecretTypeDirectory, SecretTypeSecret} ->
              [err |-> "nil", attr |-> [a EXCEPT !.ModeDir = TRUE, !.Perm = Octal(5, 5, 5)]]
         [] OTHER -> [err |-> "EIO", attr |-> a]

\* SecretDir.Attr(ctx, a)
SecretDirAttr(b, method, s) ==
    { IF p.type = "panic"
      THEN KOut(Panicked("Attr", s.lookupPath, <<>>, "none", p.calls), p.b)
      ELSE KOut(Result("Attr", s.lookupPath, <<>>, AttrSwitch(p.type).err,
                       AttrSwitch(p.type).attr, <<>>, NoNode, p.type, NilSecret,
                       "none", p.calls), p.b)
      : p \in lookup(b, method, s.lookupPath) }

\* A faulty LookupChildSwitch: only a child that could be read resolves to a
\* node; a child that only lists, or is denied, is reported not found.
LookupChildSwitch_ReadableOnly(childType, childLookupPath) ==
    CASE childType = SecretTypeBackendError -> Failed("EIO")
      [] childType = SecretTypeSecret -> NewSecretDir(FALSE, childLookupPath)
      [] childType \in {SecretTypeNonExistent, SecretTypeInaccessible, SecretTypeDirectory} ->
           Failed("ENOENT")
      [] OTHER -> Failed("EIO")

\* A faulty LookupChildSwitch: a child that is a readable secret is handed out as
\* a static directory of its fields.
LookupChildSwitch_SecretIsStatic(childType, childLookupPath) ==
    CASE childType = SecretTypeBackendError -> Failed("EIO")
      [] childType = SecretTypeNonExistent -> Failed("ENOENT")
      [] childType \in {SecretTypeInaccessible, SecretTypeDirectory} ->
           NewSecretDir(FALSE, childLookupPath)
      [] childType = SecretTypeSecret -> NewStaticDir(NilMap)
      [] OTHER -> Failed("EIO")

\* The inner switch of SecretDir.Lookup on the child's probed type
LookupChildSwitch(childType, childLookupPath) ==
    CASE childType = SecretTypeBackendError -> Failed("EIO")
      [] childType = SecretTypeNonExistent -> Failed("ENOENT")
      [] childType \in {SecretTypeInaccessible, SecretTypeDirectory, SecretTypeSecret} ->
           NewSecretDir(FALSE, childLookupPath)
      [] OTHER -> Failed("EIO")

\* A faulty LookupSwitch: below an Inaccessible node every name is not found.
LookupSwitch_DeniedNotFound(own, childLookupPath, name) ==
    CASE own.type = SecretTypeBackendError -> Failed("EIO")
      [] own.type \in {SecretTypeNonExistent, SecretTypeInaccessible} -> Failed("ENOENT")
      [] own.type = SecretTypeSecret -> lookupSecret(own.secret.s, name)
      [] OTHER -> Failed("EIO")

\* The outer switch of SecretDir.Lookup for every type but Directory
LookupSwitch(own, childLookupPath, name) ==
    CASE own.type = SecretTypeBackendError -> Failed("EIO")
      [] own.type = SecretTypeNonExistent -> Failed("ENOENT")
      [] own.type = SecretTypeInaccessible -> NewSecretDir(FALSE, childLookupPath)
      [] own.type = SecretTypeSecret -> lookupSecret(own.secret.s, name)
      [] OTHER -> Failed("EIO")

\* SecretDir.Lookup(ctx, name)
SecretDirLookup(b, method, s, name) ==
    LET childLookupPath == PathJoin(s.lookupPath, name)
    IN UNION {
        IF own.type = "panic"
        THEN {KOut(Panicked("Lookup", s.lookupPath, name, "none", own.calls), own.b)}
        ELSE IF own.type = SecretTypeDirectory
        THEN { IF ch.type = "panic"
               THEN KOut(Panicked("Lookup", s.lookupPath, name, own.type,
                                  own.calls \o ch.calls), ch.b)
               ELSE LET r == LookupChildSwitch(ch.type, childLookupPath)
                    IN KOut(Result("Lookup", s.lookupPath, name, r.err, ZeroAttr, <<>>,
                                   r.node, own.type, NilSecret, ch.type,
                                   own.calls \o ch.calls), ch.b)
               : ch \in lookup(own.b, method, childLookupPath) }
        ELSE LET r == LookupSwitch(own, childLookupPath, name)
             IN {KOut(Result("Lookup", s.lookupPath, name, r.err, ZeroAttr, <<>>,
                             r.node, own.type,
                             IF own.type = SecretTypeSecret THEN own.secret ELSE NilSecret,
                             "none", own.calls), own.b)}
        : own \in lookup(b, method, s.lookupPath) }

\* A faulty readDirAllDirSecret: a listing without usable keys is reported not found.
readDirAllDirSecret_NoKeysNotFound(secret) ==
    IF secret.nil THEN [dirents |-> <<>>, err |-> "ENOENT"]
    ELSE IF secret.s.Data.nil \/ ~Found(secret.s.Data.m, KeysField)
    THEN [dirents |-> <<>>, err |-> "ENOENT"]
    ELSE LET keys == Get(secret.s.Data.m, KeysField)
         IN IF keys.t # "list" \/ keys.l = <<>> THEN [dirents |-> <<>>, err |-> "ENOENT"]
            ELSE [dirents |->
                    [i \in 1..Len(keys.l) |->
                        Dirent(TrimRight(keys.l[i].s, "/"), "DT_Dir")],
                  err |-> "nil"]

\* SecretDir.readDirAllDirSecret(ctx, secret): (dirents, error)
readDirAllDirSecret(secret) ==
    IF secret.nil THEN [dirents |-> <<>>, err |-> "ENOENT"]
    ELSE IF secret.s.Data.nil THEN [dirents |-> <<>>, err |-> "nil"]
    ELSE IF ~Found(secret.s.Data.m, KeysField) THEN [dirents |-> <<>>, err |-> "nil"]
    ELSE LET keys == Get(secret.s.Data.m, KeysField)
         IN IF keys.t = "nil" THEN [dirents |-> <<>>, err |-> "nil"]
            ELSE IF keys.t # "list" THEN [dirents |-> <<>>, err |-> "nil"]
            ELSE [dirents |->
                    [i \in 1..Len(keys.l) |->
                        LET rawName == IF keys.l[i].t = "string" THEN keys.l[i].s ELSE <<>>
                        IN Dirent(TrimRight(rawName, "/"), "DT_Dir")],
                  err |-> "nil"]

\* The orders in which ranging over the static map may yield its entries: the
\* rotations of the declaration order stand for Go's unspecified order.
MapOrders(seq) ==
    {[i \in 1..Len(seq) |-> seq[((i + k - 1) % Len(seq)) + 1]] : k \in 0..(Len(seq) - 1)}

\* A faulty readDirAllSecret: "auth" and "wrap_info" are listed only for a
\* secret that carries them.
readDirAllSecret_PresentOnly(secret) ==
    { [dirents |-> SelectSeq(order, LAMBDA d :
                      /\ d.Name = NameAuth => ~secret.s.Auth.nil
                      /\ d.Name = NameWrapInfo => ~secret.s.WrapInfo.nil),
       err |-> "nil"] : order \in MapOrders(secretDirEntrys) }

\* SecretDir.readDirAllSecret(ctx, secret): every list it may return
readDirAllSecret(secret) ==
    {[dirents |-> order, err |-> "nil"] : order \in MapOrders(secretDirEntrys)}

\* The switch of SecretDir.ReadDirAll on the probed type
\* A faulty switch: a node that denies its probe fails its listing.
ReadDirAllSwitch_InaccessibleFails(p) ==
    CASE p.type = SecretTypeBackendError -> {[dirents |-> <<>>, err |-> "EIO"]}
      [] p.type = SecretTypeNonExistent -> {[dirents |-> <<>>, err |-> "ENOENT"]}
      [] p.type = SecretTypeInaccessible -> {[dirents |-> <<>>, err |-> "EIO"]}
      [] p.type = SecretTypeDirectory -> {readDirAllDirSecret(p.secret)}
      [] p.type = SecretTypeSecret -> readDirAllSecret(p.secret)
      [] OTHER -> {[dirents |-> <<>>, err |-> "EIO"]}

ReadDirAllSwitch(p) ==
    CASE p.type = SecretTypeBackendError -> {[dirents |-> <<>>, err |-> "EIO"]}
      [] p.type = SecretTypeNonExistent -> {[dirents |-> <<>>, err |-> "ENOENT"]}
      [] p.type = SecretTypeInaccessible -> {[dirents |-> <<>>, err |-> "nil"]}
      [] p.type = SecretTypeDirectory -> {readDirAllDirSecret(p.secret)}
      [] p.type = SecretTypeSecret -> readDirAllSecret(p.secret)
      [] OTHER -> {[dirents |-> <<>>, err |-> "EIO"]}

\* SecretDir.ReadDirAll(ctx)
SecretDirReadDirAll(b, method, s) ==
    UNION {
        IF p.type = "panic"
        THEN {KOut(Panicked("ReadDirAll", s.lookupPath, <<>>, "none", p.calls), p.b)}
        ELSE { KOut(Result("ReadDirAll", s.lookupPath, <<>>, r.err, ZeroAttr, r.dirents,
                           NoNode, p.type, p.secret, "none", p.calls), p.b)
               : r \in ReadDirAllSwitch(p) }
        : p \in lookup(b, method, s.lookupPath) }

-----------------------------------------------------------------------------
(* fs.VaultFS and the kernel *)

\* v.root, the configured prefix
RootPath == <<<<"s", "e", "c", "r", "e", "t">>>>

\* The names the kernel asks for: the seven fields and one other name.
OtherName == <<"d", "b">>

\* What the caller of fs.New supplies: no token and a method, or a token (the
\* method is then never consulted, and one stands for all).
Configs ==
    {[token |-> <<>>, authMethod |-> m] : m \in AuthMethods}
        \cup {[token |-> <<"t", "0">>, authMethod |-> "cert"]}

\* The paths a followed store holds something at, and the names that lead there
NameAdmin == <<"a", "d", "m", "i", "n">>
NameKnown == <<"k", "n", "o", "w", "n">>
StorePaths == {RootPath, RootPath \o <<NameAdmin>>, RootPath \o <<NameAdmin, NameKnown>>}

\* The names the kernel asks for, and how deep it goes
KernelNames ==
    IF remote = AnyStore THEN (EntryNames \cup {OtherName})
    ELSE IF remote = BlankLoginStore THEN {NameLeaseId}
    ELSE {NameAdmin, NameKnown, KeyPlain}
DepthBound ==
    IF remote = AnyStore THEN MaxDepth
    ELSE IF remote = BlankLoginStore THEN Len(RootPath)
    ELSE StoreDepth

\* What is kept of an operation once another has followed it
Summary(res) ==
    [op |-> res.op, path |-> res.path, name |-> res.name, type |-> res.type, err |-> res.err]
NoLast == Summary(NoResult)

\* No probe is followed step by step
NoTasks == <<>>

Init ==
    /\ phase = "new"
    /\ \E c \in Configs : token = c.token /\ authMethod = c.authMethod
    /\ clientToken = <<>>
    /\ node = NoNode
    /\ result = NoResult
    /\ trail = <<>>
    /\ remote = AnyStore
    /\ last = NoLast
    /\ tasks = NoTasks

\* A faulty fs.New: the host is returned without a call of Auth.
New_WithoutAuth ==
    /\ phase = "new"
    /\ \E client \in BOOLEAN, asked \in BOOLEAN :
         phase' = IF ~client \/ (authMethod = "ldap" /\ ~asked) THEN "failed" ELSE "ready"
    /\ UNCHANGED <<authMethod, token, clientToken, node, result, trail, remote, last, tasks>>

\* fs.New: make the client, ask for the ldap password, build the backend and
\* authenticate; a host is returned only if none of the three returned an error.
\* client: api.NewClient succeeded; asked: the password prompt did.
New ==
    /\ phase = "new"
    /\ \E client \in BOOLEAN, asked \in BOOLEAN,
          lr \in LoginChoices(Backend(token, clientToken), authMethod) :
         LET a == Auth(Backend(token, clientToken), authMethod, lr)
         IN IF ~client \/ (authMethod = "ldap" /\ ~asked)
            THEN phase' = "failed" /\ UNCHANGED <<token, clientToken>>
            ELSE /\ phase' = IF a.panic \/ ~a.err.nil THEN "failed" ELSE "ready"
                 /\ token' = a.b.token
                 /\ clientToken' = a.b.client
    /\ UNCHANGED <<authMethod, node, result, trail, remote, last, tasks>>

\* VaultFS.Root: the kernel asks for the root node
Root ==
    /\ phase = "ready"
    /\ result = NoResult
    /\ LET r == NewSecretDir(FALSE, RootPath)
       IN /\ node' = r.node
          /\ result' = Result("Root", <<>>, <<>>, r.err, ZeroAttr, <<>>, r.node,
                              "none", NilSecret, "none", <<>>)
          /\ trail' = <<>>
    /\ UNCHANGED <<phase, authMethod, token, clientToken, remote, last, tasks>>

\* fs.Serve hands the operation's return to the kernel, which may then ask again.
Respond ==
    /\ result # NoResult
    /\ result' = NoResult
    /\ last' = IF remote = AnyStore THEN last ELSE Summary(result)
    /\ UNCHANGED <<phase, authMethod, token, clientToken, node, trail, remote, tasks>>

Attr ==
    /\ phase = "ready"
    /\ result = NoResult
    /\ node.kind = "SecretDir"
    /\ \E o \in SecretDirAttr(Backend(token, clientToken), authMethod, node) :
         /\ result' = o.res
         /\ token' = o.b.token
         /\ clientToken' = o.b.client
    /\ UNCHANGED <<phase, authMethod, node, trail, remote, last, tasks>>

\* The kernel keeps the node a successful Lookup returns and goes on from it,
\* unless that node lies deeper than DepthBound.
Lookup ==
    /\ phase = "ready"
    /\ result = NoResult
    /\ node.kind = "SecretDir"
    /\ \E name \in KernelNames :
         \E o \in SecretDirLookup(Backend(token, clientToken), authMethod, node, name) :
            /\ result' = o.res
            /\ token' = o.b.token
            /\ clientToken' = o.b.client
            /\ node' = IF o.res.err = "nil" /\ Len(o.res.child.lookupPath) <= DepthBound
                       THEN o.res.child ELSE node
            /\ trail' = IF o.res.err = "nil" /\ Len(o.res.child.lookupPath) <= DepthBound
                        THEN Append(trail, name) ELSE trail
    /\ UNCHANGED <<phase, authMethod, remote, last, tasks>>

ReadDirAll ==
    /\ phase = "ready"
    /\ result = NoResult
    /\ node.kind = "SecretDir"
    /\ \E o \in SecretDirReadDirAll(Backend(token, clientToken), authMethod, node) :
         /\ result' = o.res
         /\ token' = o.b.token
         /\ clientToken' = o.b.client
    /\ UNCHANGED <<phase, authMethod, node, trail, remote, last, tasks>>

\* A faulty StaticValueAttr: the file is reported readable and writable (0666).
StaticValueAttr_Writable(f) ==
    [err |-> "nil",
     attr |-> [ZeroAttr EXCEPT !.Perm = Octal(6, 6, 6), !.Uid = 0, !.Gid = 0,
                               !.Size = Len(f.value)]]

\* StaticValue.Attr(ctx, a)
\* A faulty Attr: the size is left at the zero the handler was given.
StaticValueAttr_SizeUnset(f) ==
    [err |-> "nil", attr |-> [ZeroAttr EXCEPT !.Perm = Octal(4, 4, 0), !.Uid = 0, !.Gid = 0]]

StaticValueAttr(f) ==
    [err |-> "nil",
     attr |-> [ZeroAttr EXCEPT !.Perm = Octal(4, 4, 0), !.Uid = 0, !.Gid = 0,
                               !.Size = Len(f.value)]]

\* A faulty Read: the offset is checked, but the copy starts at the first byte.
StaticValueRead_FromStart(f, offset, size, cap) ==
    IF offset < 0 \/ offset > Len(f.value) THEN [err |-> "error", data |-> <<>>]
    ELSE IF Len(f.value) = 0 THEN [err |-> "nil", data |-> <<>>]
    ELSE IF size < 0 \/ size > cap THEN [err |-> "panic", data |-> <<>>]
    ELSE [err |-> "nil",
          data |-> SubSeq(f.value, 1, IF size < Len(f.value) THEN size ELSE Len(f.value))]

\* StaticValue.Read(ctx, req, resp) for req.Offset = offset, req.Size = size and a
\* resp.Data of length 0 and capacity cap.  uint64(req.Offset) of a negative
\* offset is at least 2^63, above any length.  data is resp.Data on return.
StaticValueRead(f, offset, size, cap) ==
    IF offset < 0 \/ offset > Len(f.value) THEN [err |-> "error", data |-> <<>>]
    ELSE IF Len(f.value) = 0 THEN [err |-> "nil", data |-> <<>>]
    ELSE IF size < 0 \/ size > cap THEN [err |-> "panic", data |-> <<>>]
    ELSE LET rest == SubSeq(f.value, offset + 1, Len(f.value))
             copiedBytes == IF size < Len(rest) THEN size ELSE Len(rest)
         IN [err |-> "nil", data |-> SubSeq(rest, 1, copiedBytes)]

\* The kernel asks for the attributes of a Static Value it holds
StaticAttr ==
    /\ phase = "ready"
    /\ result = NoResult
    /\ node.kind = "StaticValue"
    /\ result' = Result("StaticValue.Attr", <<>>, <<>>, StaticValueAttr(node).err,
                        StaticValueAttr(node).attr, <<>>, NoNode, "none", NilSecret,
                        "none", <<>>)
    /\ UNCHANGED <<phase, authMethod, token, clientToken, node, trail, remote, last, tasks>>

Next == New \/ Root \/ Attr \/ Lookup \/ ReadDirAll \/ StaticAttr \/ Respond

Spec == Init /\ [][Next]_vars

-----------------------------------------------------------------------------
(* The probe on its own: SecretDir.lookup applied to a path, keeping the   *)
(* whole of what the backend's Read and List returned to it.               *)

\* The tokens a host can hold once fs.New has returned it
ReadyTokens == {c.token : c \in {d \in Configs : d.token # <<>>}}
                 \cup {lr.secret.s.Auth.ClientToken :
                         lr \in {r \in RemoteLoginResps : ~r.secret.nil /\ ~r.secret.s.Auth.nil}}


InitProbe ==
    /\ phase = "ready"
    /\ authMethod \in AuthMethods
    /\ token \in ReadyTokens
    /\ clientToken = token
    /\ node \in {SecretDirNode(q) : q \in {RootPath, PathJoin(RootPath, OtherName)}}
    /\ result = NoResult
    /\ trail = SubSeq(node.lookupPath, Len(RootPath) + 1, Len(node.lookupPath))
    /\ remote = AnyStore
    /\ last = NoLast
    /\ tasks = NoTasks

\* One call of lookup on the node's own path
ProbeStep ==
    /\ result = NoResult
    /\ \E rd \in ReadOutcomes(Backend(token, clientToken), authMethod, node.lookupPath) :
         \E ls \in IF CallsList(rd)
                   THEN ListOutcomes(rd.b, authMethod, node.lookupPath)
                   ELSE {NotCalled(rd.b)} :
            LET p == lookupWith(rd, ls)
            IN /\ result' = [op |-> "lookup", path |-> node.lookupPath, rd |-> rd,
                             ls |-> ls, type |-> p.type, secret |-> p.secret]
               /\ token' = p.b.token
               /\ clientToken' = p.b.client
    /\ UNCHANGED <<phase, authMethod, node, trail, remote, last, tasks>>


SpecProbe == InitProbe /\ [][(ProbeStep \/ Respond)]_vars

-----------------------------------------------------------------------------
(* The host over a remote store that is followed path by path: between two *)
(* kernel operations the store may come to hold something else at a path.  *)

InitStore ==
    /\ phase = "ready"
    /\ authMethod = "cert"
    /\ token = <<"t", "0">>
    /\ clientToken = token
    /\ node = SecretDirNode(RootPath)
    /\ result = NoResult
    /\ trail = <<>>
    /\ remote \in [StorePaths -> Holdings]
    /\ last = NoLast
    /\ tasks = NoTasks

\* Someone changes what the store holds at a path
Change ==
    /\ result = NoResult
    /\ \E q \in StorePaths : \E h \in Holdings \ {remote[q]} :
         remote' = [remote EXCEPT ![q] = h]
    /\ UNCHANGED <<phase, authMethod, token, clientToken, node, result, trail, last, tasks>>

\* The names asked for are none of a secret's seven fields, so no Static Value is
\* ever handed out and StaticValue.Attr has no node to act on.
NextStore == Root \/ Attr \/ Lookup \/ ReadDirAll \/ Respond \/ Change

SpecStore == InitStore /\ [][NextStore]_vars

------------------------------------------------------------------------------
(* The host built against a remote store whose login may hand out an empty
   client token: fs.New then returns a host whose backend holds no token, and
   every Read and List of an operation logs in again. *)

InitReauth ==
    /\ phase = "new"
    /\ \E c \in Configs : token = c.token /\ authMethod = c.authMethod
    /\ clientToken = <<>>
    /\ node = NoNode
    /\ result = NoResult
    /\ trail = <<>>
    /\ remote = BlankLoginStore
    /\ last = NoLast
    /\ tasks = NoTasks

SpecReauth == InitReauth /\ [][Next]_vars

-----------------------------------------------------------------------------
(* The parts that stand alone, each called on its own: a Static Value read
   piecewise, the backend's six operations on a backend with or without a
   token, and narrowVaultError on the texts it tells apart. *)

\* The buffers of the Static Values read
ValueBuffers == UNION {[1..n -> {"a", "b"}] : n \in 0..MaxValueLen}

\* The error texts narrowVaultError is given: each phrase is absent, said
\* somewhere, or said behind "* "
RawTexts ==
    {e \in {RawErr(pd, mct, said) :
                pd \in BOOLEAN, mct \in BOOLEAN,
                said \in SUBSET {"permission denied", "missing client token"}} :
        /\ e.cause.pd => "permission denied" \in e.cause.said
        /\ e.cause.mct => "missing client token" \in e.cause.said}

InitParts ==
    /\ phase = "ready"
    /\ authMethod \in AuthMethods
    /\ token \in {<<>>, <<"t", "0">>}
    /\ clientToken = <<>>
    /\ node \in {StaticValueNode(v) : v \in ValueBuffers}
    /\ result = NoResult
    /\ trail = <<>>
    /\ remote = AnyStore
    /\ last = NoLast
    /\ tasks = NoTasks

\* The kernel reads size bytes at offset from the Static Value it holds; the
\* serving library hands the handler a buffer of that capacity.
StaticRead ==
    /\ result = NoResult
    /\ node.kind = "StaticValue"
    /\ \E offset \in -1..(MaxValueLen + 1), size \in 0..(MaxValueLen + 1) :
         result' = [op |-> "StaticValue.Read", offset |-> offset, size |-> size,
                    err |-> StaticValueRead(node, offset, size, size).err,
                    data |-> StaticValueRead(node, offset, size, size).data]
    /\ UNCHANGED <<phase, authMethod, token, clientToken, node, trail, remote, last, tasks>>

\* One call of the backend (AuthableLogical): Auth, or one of the five operations
BackendCall ==
    /\ result = NoResult
    /\ \E op \in {"Auth", "Read", "List", "Write", "Delete", "Unwrap"} :
         \E lr \in LoginChoices(Backend(token, clientToken), authMethod) :
            \E rr \in ReadAnswers(RootPath) :
               LET b == Backend(token, clientToken)
                   o == IF op = "Auth" THEN Auth(b, authMethod, lr)
                        ELSE backendOp(op, b, authMethod, RootPath, lr, rr)
               IN /\ result' = [op |-> op, b |-> b, answer |-> rr, secret |-> o.secret,
                                 err |-> o.err, panic |-> o.panic, calls |-> o.calls]
                  /\ token' = o.b.token
                  /\ clientToken' = o.b.client
    /\ UNCHANGED <<phase, authMethod, node, trail, remote, last, tasks>>

\* narrowVaultError applied to a raw error, or once more to what it returned
Narrow ==
    /\ \/ /\ result = NoResult
          /\ \E err \in RawTexts :
               result' = [op |-> "narrowVaultError", given |-> err,
                          err |-> narrowVaultError(err)]
       \/ /\ result # NoResult
          /\ result.op = "narrowVaultError"
          /\ Len(result.err.types) < MaxWraps
          /\ result' = [op |-> "narrowVaultError", given |-> result.err,
                        err |-> narrowVaultError(result.err)]
    /\ UNCHANGED <<phase, authMethod, token, clientToken, node, trail, remote, last, tasks>>

NextParts == StaticAttr \/ StaticRead \/ BackendCall \/ Narrow \/ Respond

SpecParts == InitParts /\ [][NextParts]_vars

-----------------------------------------------------------------------------
(* Probes beside each other.  The serving library runs each kernel request in
   a task of its own, and all of them share the one backend; vaultBackend has
   no lock.  A probe (SecretDir.lookup) is followed statement by statement
   through vaultBackend.Read, Auth and vaultBackend.List:
     "entry"  at the test of b.token in Read or List
     "auth"   at the test of b.token in Auth
     "login"  waiting for the answer to the login
     "store"  about to assign the login's token to b.token
     "set"    at b.client.SetToken(b.token)
     "call"   waiting for the answer to b.logical.Read or List
   The kernel may cancel a request at any time; lookup is given the request's
   ctx and passes it to nothing. *)

Task(stage, at, cancelled, pending, logins) ==
    [stage |-> stage, at |-> at, cancelled |-> cancelled, pending |-> pending,
     logins |-> logins]

\* What a read of b.token by task t may see: the field, or, while another task
\* is assigning to it, also the value being assigned or a torn string
TokenReads(t) ==
    {token} \cup UNION {{tasks[u].pending, <<"torn">>} :
                            u \in {v \in DOMAIN tasks : v # t /\ tasks[v].at = "store"}}

\* Task t's backend operation returned o: lookup goes on to List after a Read
\* that found no secret, and returns otherwise
Returned(t, o) ==
    IF tasks[t].stage = "Read" /\ lookupAfterRead(o) = "List"
    THEN [tasks[t] EXCEPT !.stage = "List", !.at = "entry"]
    ELSE [tasks[t] EXCEPT !.at = "done"]

InitRace ==
    /\ phase = "ready"
    /\ authMethod \in AuthMethods
    /\ token \in {<<>>, <<"t", "0">>}
    /\ clientToken = token
    /\ node = SecretDirNode(RootPath)
    /\ result = NoResult
    /\ trail = <<>>
    /\ remote = AnyStore
    /\ last = NoLast
    /\ tasks = [t \in 1..MaxTasks |-> Task("none", "idle", FALSE, <<>>, 0)]

\* A kernel request arrives and its probe calls vaultBackend.Read
Begin ==
    /\ \E t \in DOMAIN tasks :
         /\ tasks[t].at = "idle"
         /\ tasks' = [tasks EXCEPT ![t] = Task("Read", "entry", FALSE, <<>>, 0)]
    /\ UNCHANGED <<phase, authMethod, token, clientToken, node, result, trail, remote, last>>

\* A task reads b.token: the tests in Read, List and Auth, and SetToken's argument
Check ==
    \E t \in DOMAIN tasks : \E seen \in TokenReads(t) :
       /\ tasks[t].at \in {"entry", "auth", "set"}
       /\ tasks' = [tasks EXCEPT ![t] =
             IF seen = <<"torn">> THEN [@ EXCEPT !.at = "crashed"]
             ELSE IF @.at = "entry"
             THEN [@ EXCEPT !.at = IF seen = <<>> THEN "auth" ELSE "call"]
             ELSE IF @.at = "set" THEN [@ EXCEPT !.at = "call"]
             ELSE IF seen # <<>> THEN [@ EXCEPT !.at = "set"]
             ELSE IF authMethod \in {"cert", "ldap"}
             THEN [@ EXCEPT !.at = "login", !.logins = @ + 1]
             ELSE Returned(t, Outcome(NilSecret, ErrAuthFailed(NilErr),
                                      Backend(token, clientToken), FALSE, <<>>))]
       /\ clientToken' = IF tasks[t].at = "set" /\ seen # <<"torn">> THEN seen ELSE clientToken
       /\ UNCHANGED <<phase, authMethod, token, node, result, trail, remote, last>>

\* The remote store answers a task's login, Read or List
Return ==
    /\ \E t \in DOMAIN tasks :
         \/ /\ tasks[t].at = "login"
            /\ \E lr \in LoginAnswers :
                 LET a == Auth(Backend(<<>>, clientToken), authMethod, lr)
                 IN tasks' = [tasks EXCEPT ![t] =
                       IF a.panic THEN [@ EXCEPT !.at = "crashed"]
                       ELSE IF ~a.err.nil THEN Returned(t, a)
                       ELSE [@ EXCEPT !.at = "store", !.pending = a.b.token]]
         \/ /\ tasks[t].at = "call"
            /\ \E rr \in IF tasks[t].stage = "Read" THEN ReadAnswers(node.lookupPath)
                           ELSE ListAnswers(node.lookupPath) :
                 tasks' = [tasks EXCEPT ![t] =
                     Returned(t, Outcome(rr.secret,
                                         IF rr.err.nil THEN NilErr
                                         ELSE narrowVaultError(rr.err),
                                         Backend(token, clientToken), FALSE, <<>>))]
    /\ UNCHANGED <<phase, authMethod, token, clientToken, node, result, trail, remote, last>>

\* b.token = secret.Auth.ClientToken
Store ==
    /\ \E t \in DOMAIN tasks :
         /\ tasks[t].at = "store"
         /\ token' = tasks[t].pending
         /\ tasks' = [tasks EXCEPT ![t] = [@ EXCEPT !.at = "set"]]
    /\ UNCHANGED <<phase, authMethod, clientToken, node, result, trail, remote, last>>

\* The kernel gives up a request that is under way: its ctx is cancelled
Cancel ==
    /\ \E t \in DOMAIN tasks :
         /\ tasks[t].at \notin {"idle", "done", "crashed"}
         /\ ~tasks[t].cancelled
         /\ tasks' = [tasks EXCEPT ![t] = [@ EXCEPT !.cancelled = TRUE]]
    /\ UNCHANGED <<phase, authMethod, token, clientToken, node, result, trail, remote, last>>

NextRace == Begin \/ Check \/ Return \/ Store \/ Cancel

SpecRace == InitRace /\ [][NextRace]_vars

-----------------------------------------------------------------------------
(* The mount command.  mountCmd.Run builds the host, starts a task that
   waits for an interrupt or terminate signal and then calls Unmount, and
   calls Mount in the main task.  The two tasks share the host's conn field;
   nothing orders their accesses.  `tasks` holds the process:
     main     where the main task is: "New", "Mount" (in fuse.Mount),
              "record" (fuse.Mount has returned, v.conn and err are about to
              be assigned), "Serve", "failed" (Mount returned an error),
              "returned" (Mount returned nil)
     handler  where the signal task is: "none", "Notify", "wait" (<-c),
              "Unmount" (at the test of v.conn), "fuse.Unmount", "Close",
              "Ready" (<-v.conn.Ready), "Fatal" (Unmount returned err),
              "done" (Unmount returned nil)
     got      what fuse.Mount returned; conn: the field v.conn
     kernel   the kernel mount is in place; closed: the connection is closed
     ready, mountError   the connection's Ready channel and MountError
     registered, queued  signal.Notify has been called; signals waiting in c
     signals, unmounts   signals sent so far; calls of Unmount so far
     steps    what the call of Unmount has done, in order; err: what it returned
     exit     "running", or how the process ended: "returned" (Run returned),
              "fatal" (log.Fatal), "killed" (a signal nothing was registered for) *)

MaxSignals == 2

InitMount ==
    /\ phase = "new"
    /\ \E c \in Configs : token = c.token /\ authMethod = c.authMethod
    /\ clientToken = <<>>
    /\ node = NoNode
    /\ result = NoResult
    /\ trail = <<>>
    /\ remote = AnyStore
    /\ last = NoLast
    /\ tasks = [main |-> "New", handler |-> "none", got |-> "none", conn |-> "nil",
                kernel |-> FALSE, closed |-> FALSE, ready |-> FALSE,
                mountError |-> FALSE, registered |-> FALSE, queued |-> 0,
                signals |-> 0, unmounts |-> 0, steps |-> <<>>, err |-> "none",
                exit |-> "running"]

\* mountCmd.Run around the calls of fs.New and Mount: log.Fatal when fs.New
\* returned an error, else start the signal task and call Mount; log.Fatal
\* when Mount returned an error, else return.
Run ==
    /\ tasks.exit = "running"
    /\ \/ /\ phase = "failed"
          /\ tasks' = [tasks EXCEPT !.exit = "fatal"]
       \/ /\ phase = "ready"
          /\ tasks.main = "New"
          /\ tasks' = [tasks EXCEPT !.main = "Mount", !.handler = "Notify"]
       \/ /\ tasks.main = "failed"
          /\ tasks' = [tasks EXCEPT !.exit = "fatal"]
       \/ /\ tasks.main = "returned"
          /\ tasks' = [tasks EXCEPT !.exit = "returned"]
    /\ UNCHANGED <<phase, authMethod, token, clientToken, node, result, trail, remote, last>>

\* An interrupt or terminate signal is sent to the process: it is put into c if
\* Notify has been called and c has room, dropped if c is full, and ends the
\* process if nothing is registered for it.
Signal ==
    /\ tasks.exit = "running"
    /\ phase = "ready"
    /\ tasks.signals < MaxSignals
    /\ tasks' = IF tasks.registered
                THEN [tasks EXCEPT !.signals = @ + 1, !.queued = 1]
                ELSE [tasks EXCEPT !.signals = @ + 1, !.exit = "killed"]
    /\ UNCHANGED <<phase, authMethod, token, clientToken, node, result, trail, remote, last>>

\* The transport closes the connection's Ready channel once the mount has
\* completed or failed; a failure is kept in MountError and leaves no mount.
Ready ==
    /\ tasks.exit = "running"
    /\ tasks.got = "conn"
    /\ ~tasks.ready
    /\ \E failed \in BOOLEAN :
         tasks' = [tasks EXCEPT !.ready = TRUE, !.mountError = failed,
                                !.kernel = IF failed THEN FALSE ELSE @]
    /\ UNCHANGED <<phase, authMethod, token, clientToken, node, result, trail, remote, last>>

\* The signal task of mountCmd.Run: Notify, wait for a signal, call Unmount,
\* log.Fatal if it returned an error.
Handler ==
    /\ tasks.exit = "running"
    /\ \/ /\ tasks.handler = "Notify"
          /\ tasks' = [tasks EXCEPT !.handler = "wait", !.registered = TRUE]
       \/ /\ tasks.handler = "wait"
          /\ tasks.queued > 0
          /\ tasks' = [tasks EXCEPT !.handler = "Unmount", !.queued = @ - 1,
                                    !.unmounts = @ + 1]
       \/ /\ tasks.handler = "Fatal"
          /\ tasks' = [tasks EXCEPT !.exit = "fatal"]
    /\ UNCHANGED <<phase, authMethod, token, clientToken, node, result, trail, remote, last>>

\* One statement of VaultFS.Mount by the main task; ok: fuse.Mount connected,
\* or fs.Serve ended without an error.  fs.Serve returns once the kernel mount
\* is gone.
MountStep(p, ok) ==
    CASE p.main = "Mount" ->
           [p EXCEPT !.main = "record", !.got = IF ok THEN "conn" ELSE "err",
                     !.kernel = ok]
      [] p.main = "record" ->
           [p EXCEPT !.conn = IF p.got = "conn" THEN "conn" ELSE "nil",
                     !.main = IF p.got = "conn" THEN "Serve" ELSE "failed"]
      [] p.main = "Serve" /\ ~p.kernel ->
           [p EXCEPT !.main = IF ok THEN "returned" ELSE "failed"]
      [] OTHER -> p

Mount ==
    /\ tasks.exit = "running"
    /\ \E ok \in BOOLEAN :
         /\ MountStep(tasks, ok) # tasks
         /\ tasks' = MountStep(tasks, ok)
    /\ UNCHANGED <<phase, authMethod, token, clientToken, node, result, trail, remote, last>>

\* A faulty Unmount: the connection is closed although the kernel unmount failed.
UnmountStep_ClosesAnyway(p, ok) ==
    CASE p.handler = "Unmount" ->
           IF p.conn = "nil"
           THEN [p EXCEPT !.handler = "Fatal", !.err = "not mounted"]
           ELSE [p EXCEPT !.handler = "fuse.Unmount"]
      [] p.handler = "fuse.Unmount" ->
           [p EXCEPT !.steps = Append(@, "fuse.Unmount"),
                     !.kernel = IF ok THEN FALSE ELSE @,
                     !.handler = "Close"]
      [] p.handler = "Close" ->
           [p EXCEPT !.steps = Append(@, "Close"), !.closed = ok,
                     !.handler = IF ok THEN "Ready" ELSE "Fatal",
                     !.err = IF ok THEN @ ELSE "Close"]
      [] p.handler = "Ready" /\ p.ready ->
           [p EXCEPT !.steps = Append(@, "Ready"),
                     !.handler = IF p.mountError THEN "Fatal" ELSE "done",
                     !.err = IF p.mountError THEN "MountError" ELSE @]
      [] OTHER -> p

\* A faulty Unmount: a host without a connection is unmounted all the same.
UnmountStep_IgnoresNil(p, ok) ==
    CASE p.handler = "Unmount" -> [p EXCEPT !.handler = "fuse.Unmount"]
      [] p.handler = "fuse.Unmount" ->
           [p EXCEPT !.steps = Append(@, "fuse.Unmount"),
                     !.kernel = IF ok THEN FALSE ELSE @,
                     !.handler = IF ok THEN "Close" ELSE "Fatal",
                     !.err = IF ok THEN @ ELSE "fuse.Unmount"]
      [] p.handler = "Close" ->
           [p EXCEPT !.steps = Append(@, "Close"), !.closed = ok,
                     !.handler = IF ok THEN "Ready" ELSE "Fatal",
                     !.err = IF ok THEN @ ELSE "Close"]
      [] p.handler = "Ready" /\ p.ready ->
           [p EXCEPT !.steps = Append(@, "Ready"),
                     !.handler = IF p.mountError THEN "Fatal" ELSE "done",
                     !.err = IF p.mountError THEN "MountError" ELSE @]
      [] OTHER -> p

\* One statement of VaultFS.Unmount by the signal task; ok: fuse.Unmount or
\* conn.Close returned no error.
UnmountStep(p, ok) ==
    CASE p.handler = "Unmount" ->
           IF p.conn = "nil"
           THEN [p EXCEPT !.handler = "Fatal", !.err = "not mounted"]
           ELSE [p EXCEPT !.handler = "fuse.Unmount"]
      [] p.handler = "fuse.Unmount" ->
           [p EXCEPT !.steps = Append(@, "fuse.Unmount"),
                     !.kernel = IF ok THEN FALSE ELSE @,
                     !.handler = IF ok THEN "Close" ELSE "Fatal",
                     !.err = IF ok THEN @ ELSE "fuse.Unmount"]
      [] p.handler = "Close" ->
           [p EXCEPT !.steps = Append(@, "Close"), !.closed = ok,
                     !.handler = IF ok THEN "Ready" ELSE "Fatal",
                     !.err = IF ok THEN @ ELSE "Close"]
      [] p.handler = "Ready" /\ p.ready ->
           [p EXCEPT !.steps = Append(@, "Ready"),
                     !.handler = IF p.mountError THEN "Fatal" ELSE "done",
                     !.err = IF p.mountError THEN "MountError" ELSE @]
      [] OTHER -> p

Unmount ==
    /\ tasks.exit = "running"
    /\ \E ok \in BOOLEAN :
         /\ UnmountStep(tasks, ok) # tasks
         /\ tasks' = UnmountStep(tasks, ok)
    /\ UNCHANGED <<phase, authMethod, token, clientToken, node, result, trail, remote, last>>

SpecMount ==
    InitMount /\ [][New \/ Run \/ Signal \/ Ready \/ Handler \/ Mount \/ Unmount]_vars

\* The scheduler runs every task that can take a step, the transport completes
\* the mount it has begun, and the serve loop sees the end of the kernel mount.
SpecMountFair ==
    /\ SpecMount
    /\ WF_vars(Run) /\ WF_vars(Ready) /\ WF_vars(Handler) /\ WF_vars(Mount)
    /\ WF_vars(Unmount)

-----------------------------------------------------------------------------
(* Properties *)

\* err wraps an error of vaultapi type T, held as a value or through a pointer
Wraps(err, T) ==
    /\ ~err.nil
    /\ \E i \in 1..Len(err.types) : err.types[i] \in {T, "*" \o T}

\* The raw answers of the remote store, by what their text says
IsPermissionDenied(e) == ~e.nil /\ e.cause.present /\ e.cause.pd
IsNetworkError(e) == ~e.nil /\ e.cause.present /\ ~e.cause.pd /\ ~e.cause.mct

KernelOps == {"Attr", "Lookup", "ReadDirAll"}

\* The classification the probe is to make of what Read (rd) and List (ls) returned
ProbeTable(rd, ls) ==
    IF Wraps(rd.err, TypeErrVaultInaccessible)
    THEN [type |-> SecretTypeBackendError, secret |-> NilSecret]
    ELSE IF ~rd.secret.nil THEN [type |-> SecretTypeSecret, secret |-> rd.secret]
    ELSE IF Wraps(ls.err, TypeErrVaultInaccessible)
    THEN [type |-> SecretTypeBackendError, secret |-> NilSecret]
    ELSE IF ~ls.err.nil THEN [type |-> SecretTypeInaccessible, secret |-> NilSecret]
    ELSE IF ~ls.secret.nil THEN [type |-> SecretTypeDirectory, secret |-> ls.secret]
    ELSE [type |-> SecretTypeNonExistent, secret |-> NilSecret]

\* C1: for every combination of what the backend's Read and List return on a
\* path, the probe returns BackendError if Read's error wraps VaultInaccessible,
\* else Secret with the read secret if Read returned one, else BackendError if
\* List's error wraps VaultInaccessible, else Inaccessible if List failed in any
\* other way, else Directory with the list secret if List returned one, else
\* NonExistent.
C1_ProbeClassification ==
    (result.op = "lookup" /\ result.type # "panic")
        => /\ result.type = ProbeTable(result.rd, result.ls).type
           /\ result.secret = ProbeTable(result.rd, result.ls).secret

\* C2: when the remote store answers every call of a kernel operation on a
\* Secret Directory Node with a network error, the operation returns EIO.
C2_NetworkErrorIsEIO ==
    ( /\ result.op \in KernelOps
      /\ result.calls # <<>>
      /\ \A i \in 1..Len(result.calls) : IsNetworkError(result.calls[i].err) )
        => result.err = "EIO"

\* Read(P) and List(P) of the node's own path were both answered with a
\* permission-denied error, and nothing else was asked.
BothDenied ==
    /\ Len(result.calls) = 2
    /\ result.calls[1].op = "Read" /\ result.calls[2].op = "List"
    /\ \A i \in 1..2 : /\ result.calls[i].path = result.path
                       /\ IsPermissionDenied(result.calls[i].err)

\* C3: when the remote store answers both Read(P) and List(P) with permission
\* denied, the node at P is Inaccessible end to end: Attr succeeds with mode
\* ModeDir|0111 (73), ReadDirAll succeeds with an empty list, and neither
\* returns EIO or ENOENT.
C3_DeniedIsInaccessible ==
    (result.op \in {"Attr", "ReadDirAll"} /\ BothDenied)
        => /\ result.err = "nil"
           /\ result.type = SecretTypeInaccessible
           /\ result.op = "Attr" => result.attr.ModeDir /\ result.attr.Perm = 73
           /\ result.op = "ReadDirAll" => result.dirents = <<>>

C3_Witness ==
    /\ result.op = "ReadDirAll"
    /\ BothDenied
    /\ result.err = "nil"
    /\ result.dirents = <<>>

\* What Attr is to return for a probed type: its error and, on success, the
\* permission bits (0111 = 73, 0555 = 365)
AttrTable(type) ==
    CASE type = SecretTypeBackendError -> [err |-> "EIO", perm |-> 0]
      [] type = SecretTypeNonExistent -> [err |-> "ENOENT", perm |-> 0]
      [] type = SecretTypeInaccessible -> [err |-> "nil", perm |-> 73]
      [] type = SecretTypeDirectory -> [err |-> "nil", perm |-> 365]
      [] type = SecretTypeSecret -> [err |-> "nil", perm |-> 365]

AttrAgrees(err, attr, type) ==
    /\ err = AttrTable(type).err
    /\ err = "nil" => attr.ModeDir /\ attr.Perm = AttrTable(type).perm
    /\ attr.Uid = 0
    /\ attr.Gid = 0

\* C4: Attr maps the probed state of the node's own lookupPath: BackendError to
\* EIO, NonExistent to ENOENT, Inaccessible to success with mode ModeDir|0111,
\* Directory and Secret to success with mode ModeDir|0555; owner and group are
\* always 0.  Stated of the switch for each of the five states, and of every
\* Attr that returned.
C4_AttrMapping ==
    /\ \A type \in SecretTypes :
          AttrAgrees(AttrSwitch(type).err, AttrSwitch(type).attr, type)
    /\ (result.op = "Attr" /\ result.err # "panic")
          => /\ result.type \in SecretTypes
             /\ \A i \in 1..Len(result.calls) : result.calls[i].path = result.path
             /\ AttrAgrees(result.err, result.attr, result.type)

C4_Witness ==
    /\ result.op = "Attr"
    /\ result.type = SecretTypeSecret
    /\ result.err = "nil"
    /\ result.attr.ModeDir
    /\ result.attr.Perm = 365

FieldFiles == {NameLeaseId, NameLeaseDuration, NameRenewable, NameWarnings}
FieldDirs == {NameData, NameAuth, NameWrapInfo}

\* C5: for a node whose probed state is Secret, ReadDirAll returns exactly the
\* seven names lease_id, lease_duration, renewable, warnings, data, auth and
\* wrap_info, each once, with data, auth and wrap_info typed as directories and
\* the other four as files, whatever the secret holds.
C5_SecretListsSevenNames ==
    (result.op = "ReadDirAll" /\ result.type = SecretTypeSecret)
        => /\ result.err = "nil"
           /\ Len(result.dirents) = 7
           /\ {result.dirents[i].Name : i \in 1..Len(result.dirents)}
                 = FieldFiles \cup FieldDirs
           /\ \A i \in 1..Len(result.dirents) :
                 result.dirents[i].Type =
                    IF result.dirents[i].Name \in FieldDirs THEN "DT_Dir" ELSE "DT_File"

C5_Witness ==
    /\ result.op = "ReadDirAll"
    /\ result.type = SecretTypeSecret
    /\ result.secret = Ptr(SecretPlain)
    /\ Len(result.dirents) = 7

\* C6: when the node's own state is Inaccessible, Lookup(name) succeeds for
\* every name with a Secret Directory Node whose lookupPath is lookupPath/name,
\* and no Read or List is issued for the child path: the probe of the node's own
\* path is all that is asked.
C6_InaccessibleLookupDescends ==
    (result.op = "Lookup" /\ result.type = SecretTypeInaccessible)
        => /\ result.err = "nil"
           /\ result.child = SecretDirNode(result.path \o <<result.name>>)
           /\ result.childType = "none"
           /\ \A i \in 1..Len(result.calls) : result.calls[i].path = result.path

C6_Witness ==
    /\ result.op = "Lookup"
    /\ result.type = SecretTypeInaccessible
    /\ result.name = OtherName
    /\ result.child = SecretDirNode(result.path \o <<OtherName>>)

\* The calls of the last operation that asked for the child path
ChildCalls ==
    SelectSeq(result.calls, LAMBDA c : c.path = result.path \o <<result.name>>)

\* Read of the child returned nothing and List of the child returned a listing
ChildOnlyLists ==
    /\ Len(ChildCalls) = 2
    /\ ChildCalls[1].op = "Read" /\ ~ChildCalls[1].secret /\ ChildCalls[1].err.nil
    /\ ChildCalls[2].op = "List" /\ ChildCalls[2].secret /\ ChildCalls[2].err.nil

\* What Lookup is to return below a Directory for a probed child type
ChildAgrees(r, childType, childLookupPath) ==
    CASE childType = SecretTypeNonExistent -> r.err = "ENOENT"
      [] childType = SecretTypeBackendError -> r.err = "EIO"
      [] childType \in {SecretTypeInaccessible, SecretTypeDirectory, SecretTypeSecret} ->
           r.err = "nil" /\ r.node = SecretDirNode(childLookupPath)

\* C7: when the node's own state is Directory, Lookup(name) probes
\* lookupPath/name a second time and returns ENOENT for a NonExistent child,
\* EIO for a BackendError child and a Secret Directory Node for lookupPath/name
\* for an Inaccessible, Directory or Secret child; a child whose Read returns
\* nothing and whose List returns a listing resolves to a node.
C7_DirectoryLookupProbesChild ==
    /\ \A type \in SecretTypes :
          ChildAgrees(LookupChildSwitch(type, PathJoin(RootPath, OtherName)), type,
                      PathJoin(RootPath, OtherName))
    /\ (result.op = "Lookup" /\ result.type = SecretTypeDirectory /\ result.err # "panic")
          => /\ result.childType \in SecretTypes
             /\ ChildCalls # <<>>
             /\ ChildCalls[1].op = "Read"
             /\ ChildAgrees([err |-> result.err, node |-> result.child], result.childType,
                            result.path \o <<result.name>>)
             /\ ChildOnlyLists => result.err = "nil" /\ result.child.kind = "SecretDir"

C7_Witness ==
    /\ result.op = "Lookup"
    /\ result.type = SecretTypeDirectory
    /\ ChildOnlyLists
    /\ result.childType = SecretTypeDirectory
    /\ result.child = SecretDirNode(result.path \o <<result.name>>)

\* C8: Lookup returns a Static Directory or a Static Value only when the node's
\* own probed state is Secret; when it is Directory or Inaccessible every child
\* returned is a Secret Directory Node, even if the child path is itself a
\* readable secret.
C8_StaticOnlyBelowSecret ==
    (result.op = "Lookup" /\ result.err = "nil")
        => /\ result.child.kind \in {"StaticDir", "StaticValue"}
                 => result.type = SecretTypeSecret
           /\ result.type \in {SecretTypeDirectory, SecretTypeInaccessible}
                 => result.child.kind = "SecretDir"

C8_Witness ==
    /\ result.op = "Lookup"
    /\ result.err = "nil"
    /\ result.type = SecretTypeDirectory
    /\ result.childType = SecretTypeSecret
    /\ result.child.kind = "SecretDir"

\* C9: when the node's own state is Secret, Lookup(name) succeeds only for the
\* seven field names and returns ENOENT for every other name; nothing is asked
\* of the remote store about the child path.
C9_SecretLookupClosedSet ==
    (result.op = "Lookup" /\ result.type = SecretTypeSecret)
        => /\ result.err = "nil" => result.name \in FieldFiles \cup FieldDirs
           /\ result.name \notin FieldFiles \cup FieldDirs => result.err = "ENOENT"
           /\ result.childType = "none"
           /\ \A i \in 1..Len(result.calls) : result.calls[i].path = result.path

C9_Witness ==
    /\ result.op = "Lookup"
    /\ result.type = SecretTypeSecret
    /\ result.name = OtherName
    /\ result.err = "ENOENT"

\* The lines of a file that holds each element of ws on a line of its own, the
\* last line unterminated
RECURSIVE Lines(_)
Lines(ws) ==
    IF Len(ws) = 0 THEN <<>>
    ELSE IF Len(ws) = 1 THEN ws[1]
    ELSE Lines(SubSeq(ws, 1, Len(ws) - 1)) \o <<"\n">> \o ws[Len(ws)]

C11_DataKeepsStringsOnly ==
    (result.op = "Lookup" /\ result.type = SecretTypeSecret /\ result.name = NameData)
        => LET data == result.secret.s.Data.m
               strings == {e \in data : e.v.t = "string"}
           IN /\ result.err = "nil"
              /\ result.child.kind = "StaticDir"
              /\ ~dataSubdir(result.secret.s).nil
              /\ dataSubdir(result.secret.s).m = strings
              /\ result.child.entries = {KV(e.k, StaticValueNode(e.v.s)) : e \in strings}

C11_Witness ==
    /\ result.op = "Lookup"
    /\ result.type = SecretTypeSecret
    /\ result.name = NameData
    /\ \E e \in result.secret.s.Data.m : e.v.t # "string"
    /\ result.child = StaticDirNode({KV(<<"s">>, StaticValueNode(<<"x">>))})

\* C12: in Secret state, Lookup("auth") and Lookup("wrap_info") succeed whether
\* or not the secret carries the envelope; an absent envelope gives an empty
\* Static Directory, never ENOENT and never a fault.
C12_AbsentEnvelopeIsEmptyDir ==
    (result.op = "Lookup" /\ result.type = SecretTypeSecret
        /\ result.name \in {NameAuth, NameWrapInfo})
        => /\ result.err = "nil"
           /\ result.child.kind = "StaticDir"
           /\ (result.name = NameAuth /\ result.secret.s.Auth.nil)
                 => result.child.entries = {}
           /\ (result.name = NameWrapInfo /\ result.secret.s.WrapInfo.nil)
                 => result.child.entries = {}

C12_Witness ==
    /\ result.op = "Lookup"
    /\ result.type = SecretTypeSecret
    /\ result.name = NameWrapInfo
    /\ result.secret.s.WrapInfo.nil
    /\ result.child = StaticDirNode({})

\* The list under "keys" of the listing the last ReadDirAll read, if it is one
HasKeyList ==
    /\ result.op = "ReadDirAll"
    /\ result.type = SecretTypeDirectory
    /\ ~result.secret.nil
    /\ ~result.secret.s.Data.nil
    /\ Found(result.secret.s.Data.m, KeysField)
    /\ Get(result.secret.s.Data.m, KeysField).t = "list"

KeyList == Get(result.secret.s.Data.m, KeysField).l
StringKeys == SelectSeq(KeyList, LAMBDA v : v.t = "string")

\* C13: in Directory state, ReadDirAll skips every non-string entry of
\* data["keys"]: it succeeds with as many dirents as the list has strings, and
\* produces no dirent for a non-string entry.
C13_NonStringKeysSkipped ==
    HasKeyList
        => /\ result.err = "nil"
           /\ Len(result.dirents) = Len(StringKeys)

\* name is key without its trailing slashes: a prefix of key that does not end
\* in "/" and is followed in key by nothing but "/"
Stripped(name, key) ==
    /\ Len(name) <= Len(key)
    /\ SubSeq(key, 1, Len(name)) = name
    /\ Len(name) > 0 => name[Len(name)] # "/"
    /\ \A i \in (Len(name) + 1)..Len(key) : key[i] = "/"

\* C14: in Directory state, ReadDirAll returns the string keys in list order,
\* each as a dirent whose name is the key with its trailing "/" removed, whose
\* type is directory whether or not the key ended in "/", and whose inode is 0.
C14_KeysBecomeDirents ==
    HasKeyList
        => /\ result.err = "nil"
           /\ Len(result.dirents) = Len(StringKeys)
           /\ \A k \in 1..Len(StringKeys) :
                 /\ Stripped(result.dirents[k].Name, StringKeys[k].s)
                 /\ result.dirents[k].Type = "DT_Dir"
                 /\ result.dirents[k].Inode = 0

\* The listing the last ReadDirAll read holds no usable keys: no data, no
\* "keys", "keys" null, "keys" an empty list, or "keys" not a list
NoUsableKeys ==
    /\ result.op = "ReadDirAll"
    /\ result.type = SecretTypeDirectory
    /\ ~result.secret.nil
    /\ \/ result.secret.s.Data.nil
       \/ ~Found(result.secret.s.Data.m, KeysField)
       \/ Get(result.secret.s.Data.m, KeysField).t # "list"
       \/ Get(result.secret.s.Data.m, KeysField).l = <<>>

\* C15: in Directory state, a list response with no usable keys makes
\* ReadDirAll succeed with an empty dirent list.
C15_NoKeysIsEmptyListing ==
    NoUsableKeys => result.err = "nil" /\ result.dirents = <<>>

C15_Witness ==
    /\ NoUsableKeys
    /\ ~result.secret.s.Data.nil
    /\ Found(result.secret.s.Data.m, KeysField)
    /\ Get(result.secret.s.Data.m, KeysField).t = "string"
    /\ result.err = "nil"
    /\ result.dirents = <<>>

\* C17: every Secret Directory Node reached from Root by successful Lookups of
\* n1..nk has lookupPath root/n1/.../nk (root itself for k = 0); every Read and
\* List it issues is for that path or for that path joined with the name looked
\* up; no Secret Directory Node has an empty lookupPath, and construction with
\* an empty path or a nil host fails.
C17_PathsFollowLookups ==
    /\ node.kind = "SecretDir"
          => node.lookupPath = RootPath \o trail /\ node.lookupPath # <<>>
    /\ result.child.kind = "SecretDir" => result.child.lookupPath # <<>>
    /\ (result.op = "Lookup" /\ result.child.kind = "SecretDir")
          => result.child.lookupPath = result.path \o <<result.name>>
    /\ result.op \in KernelOps
          => \A i \in 1..Len(result.calls) :
                /\ result.calls[i].op \in {"Read", "List"}
                /\ \/ result.calls[i].path = result.path
                   \/ /\ result.op = "Lookup"
                      /\ result.calls[i].path = result.path \o <<result.name>>
    /\ NewSecretDir(FALSE, <<>>).err # "nil"
    /\ NewSecretDir(TRUE, <<>>).err # "nil"
    /\ NewSecretDir(TRUE, RootPath).err # "nil"

C17_Witness ==
    /\ trail = <<NameData>>
    /\ node = SecretDirNode(<<RootPath[1], NameData>>)
    /\ result.op = "ReadDirAll"
    /\ result.calls # <<>>
    /\ result.calls[1].path = <<RootPath[1], NameData>>

\* No write bit for owner, group or others in permission bits p
NoWriteBit(p) ==
    /\ (p \div 128) % 2 = 0
    /\ (p \div 16) % 2 = 0
    /\ (p \div 2) % 2 = 0

AdminPath == RootPath \o <<NameAdmin>>
KnownPath == RootPath \o <<NameAdmin, NameKnown>>

\* The store denies Read and List of root/admin and lists k1 under root/admin/known
ScenarioStated ==
    /\ remote # AnyStore
    /\ IsPermissionDenied(HeldAt(AdminPath).read.err)
    /\ IsPermissionDenied(HeldAt(AdminPath).list.err)
    /\ HeldAt(KnownPath).list = Listed

\* What the scenario leaves open: the root lists or denies and holds no secret
\* of its own, and a Read of root/admin/known finds nothing and fails with nothing
ScenarioUsable ==
    /\ HeldAt(RootPath).read.secret.nil
    /\ \/ HeldAt(RootPath).list = Listed
       \/ IsPermissionDenied(HeldAt(RootPath).list.err)
    /\ HeldAt(KnownPath).read = NoResp

\* Each step of the two walks from the root ends as the scenario says
ScenarioOutcome ==
    /\ (result.op = "Lookup" /\ result.path = RootPath /\ result.name = NameAdmin)
          => result.err = "nil" /\ result.child = SecretDirNode(AdminPath)
    /\ (result.op = "ReadDirAll" /\ result.path = AdminPath)
          => result.err = "nil" /\ result.dirents = <<>>
    /\ (result.op = "Lookup" /\ result.path = AdminPath /\ result.name = NameKnown)
          => result.err = "nil" /\ result.child = SecretDirNode(KnownPath)
    /\ (result.op = "ReadDirAll" /\ result.path = KnownPath)
          => result.err = "nil" /\ result.dirents = <<Dirent(KeyPlain, "DT_Dir")>>

StateNow(path) ==
    IF ~HeldAt(path).read.secret.nil THEN SecretTypeSecret
    ELSE IF IsPermissionDenied(HeldAt(path).list.err) THEN SecretTypeInaccessible
    ELSE IF ~HeldAt(path).list.secret.nil THEN SecretTypeDirectory
    ELSE SecretTypeNonExistent

\* C18: classification is never memoized: every Attr, Lookup and ReadDirAll of
\* a Secret Directory Node first asks the remote store for the node's own
\* lookupPath, and the type it acts on is the one the store's answers of that
\* moment give, whatever the operation before it saw: an Attr or a ReadDirAll
\* fails with ENOENT exactly when the path is missing now.
C18_NeverMemoized ==
    (remote # AnyStore /\ result.op \in KernelOps) =>
        /\ result.calls # <<>>
        /\ result.calls[1].op = "Read"
        /\ result.calls[1].path = result.path
        /\ result.type = StateNow(result.path)
        /\ result.op \in {"Attr", "ReadDirAll"} =>
              (result.err = "ENOENT" <=> StateNow(result.path) = SecretTypeNonExistent)
        /\ result.op \in {"Attr", "ReadDirAll"} =>
              (result.err = "nil" <=> StateNow(result.path) # SecretTypeNonExistent)

\* a ReadDirAll of a Directory succeeded, the store changed, and the next
\* ReadDirAll of the same node failed with ENOENT
C18_Witness ==
    /\ last.op = "ReadDirAll"
    /\ last.path = result.path
    /\ last.type = SecretTypeDirectory
    /\ last.err = "nil"
    /\ result.op = "ReadDirAll"
    /\ result.type = SecretTypeNonExistent
    /\ result.err = "ENOENT"
    /\ node = SecretDirNode(result.path)

\* The operation asked the remote store to log in, and the login failed
LoginFailed(c) == c.op = "Write" /\ (~c.err.nil \/ ~c.secret)

\* C19: whatever the backend answers, failed logins included, the error an
\* Attr, a Lookup or a ReadDirAll of a Secret Directory Node returns is none,
\* EIO or ENOENT, never another error value; "panic" marks a handler that did
\* not return at all, and so returned no error of its own.
C19_KernelErrors ==
    result.op \in KernelOps => result.err \in {"nil", "EIO", "ENOENT", "panic"}

\* every login of an operation failed, and the operation returned to the kernel
C19_Witness ==
    /\ result.op \in KernelOps
    /\ token = <<>>
    /\ Len(result.calls) = 2
    /\ \A i \in 1..Len(result.calls) : LoginFailed(result.calls[i])
    /\ result.type = SecretTypeInaccessible
    /\ result.err = "nil"

\* An operation of a node took place: what it set, asked and left behind
ReadOnlyStep ==
    (result = NoResult /\ result'.op \in KernelOps \cup {"StaticValue.Attr"})
        => /\ NoWriteBit(result'.attr.Perm)
           /\ (result'.op = "Attr" /\ result'.err = "nil")
                 => result'.attr.ModeDir /\ result'.attr.Perm \in {73, 365}
           /\ result'.op = "StaticValue.Attr"
                 => ~result'.attr.ModeDir /\ result'.attr.Perm = 288
           /\ \A i \in 1..Len(result'.calls) :
                 \/ result'.calls[i].op \in {"Read", "List"}
                 \/ /\ result'.calls[i].op = "Write"
                    /\ result'.calls[i].path = LoginRequest(authMethod)[1]
           /\ result'.op # "Lookup" => node' = node
           /\ result'.op = "Lookup" => node' \in {node, result'.child}

\* C20: no node reports a writable mode bit: the mode an Attr sets is
\* ModeDir|0111 (73) or ModeDir|0555 (365) for a Secret Directory Node and 0440
\* (288) for a Static Value; and no operation of a node changes a node, or
\* asks the remote store for anything but a Read or a List (or, when the backend
\* holds no token, the login of its method).
C20_ReadOnly == [][ReadOnlyStep]_vars

C20_Witness ==
    /\ result.op = "StaticValue.Attr"
    /\ result.err = "nil"
    /\ result.attr.Perm = 288
    /\ node.kind = "StaticValue"
    /\ node.value # <<>>
    /\ result.attr.Size = Len(node.value)

\* V[from : to] of a buffer, bytes counted from 0
Slice(V, from, to) == SubSeq(V, from + 1, to)

\* C21: StaticValue.Read with (offset, size) on a buffer V returns exactly
\* V[offset : min(offset + size, len(V))]: the whole of V for (0, len(V)), an
\* empty slice without error at offset = len(V); with offset > len(V), or a
\* negative offset, it fails with an error and returns no data.
C21_ReadSlice ==
    result.op = "StaticValue.Read" =>
        LET V == node.value
            end == IF result.offset + result.size < Len(V)
                   THEN result.offset + result.size ELSE Len(V)
        IN /\ (result.offset >= 0 /\ result.offset <= Len(V)) =>
                 result.err = "nil" /\ result.data = Slice(V, result.offset, end)
           /\ (result.offset = 0 /\ result.size = Len(V)) => result.data = V
           /\ result.offset = Len(V) => result.err = "nil" /\ result.data = <<>>
           /\ (result.offset < 0 \/ result.offset > Len(V)) =>
                 result.err = "error" /\ result.data = <<>>

\* a read from inside the buffer that asks for more than is left
C21_Witness ==
    /\ result.op = "StaticValue.Read"
    /\ Len(node.value) = 2
    /\ result.offset = 1
    /\ result.size = 2
    /\ result.err = "nil"
    /\ result.data = <<node.value[2]>>

\* An operation of a Static Value took place
ValueStep ==
    (node.kind = "StaticValue" /\ result = NoResult
       /\ result'.op \in {"StaticValue.Attr", "StaticValue.Read"})
        => /\ node' = node
           /\ result'.op = "StaticValue.Attr" =>
                 result'.err = "nil" /\ result'.attr.Size = Len(node.value)

\* C22: the size a Static Value Node reports in Attr is the byte length of its
\* buffer, and no Attr or Read of the node changes the buffer.
C22_SizeIsLength == [][ValueStep]_vars

C22_Witness ==
    /\ result.op = "StaticValue.Attr"
    /\ node.kind = "StaticValue"
    /\ Len(node.value) = MaxValueLen
    /\ result.attr.Size = MaxValueLen

BackendOps == {"Read", "List", "Write", "Delete", "Unwrap"}

\* c is the login of the method, not a call of the operation's own path
IsLogin(c) == c.op = "Write" /\ c.path = LoginRequest(authMethod)[1]

\* The Auth of an operation that held no token failed: no login could be made,
\* or the one made returned an error or no secret
AuthFailedIn(calls) == calls = <<>> \/ (IsLogin(calls[1]) /\ (~calls[1].err.nil \/ ~calls[1].secret))

\* C23: each of Read, List, Write, Delete and Unwrap, on a backend that holds
\* no token, first runs Auth, and if Auth fails returns that authentication
\* error with a nil secret and never invokes the remote operation; on a backend
\* that holds a token it invokes the remote operation with no login, and
\* returns the remote answer, its error passed through narrowVaultError.
C23_AuthThenCall ==
    (result.op \in BackendOps /\ ~result.panic) =>
        /\ (result.b.token = <<>> /\ AuthFailedIn(result.calls)) =>
              /\ result.secret.nil
              /\ result.err = ErrAuthFailed(IF result.calls = <<>> THEN NilErr
                                            ELSE result.calls[1].err)
              /\ \A i \in 1..Len(result.calls) : IsLogin(result.calls[i])
        /\ (result.b.token = <<>> /\ ~AuthFailedIn(result.calls)) =>
              /\ Len(result.calls) = 2
              /\ IsLogin(result.calls[1])
              /\ result.calls[2].op = result.op /\ result.calls[2].path = RootPath
        /\ result.b.token # <<>> =>
              /\ Len(result.calls) = 1
              /\ result.calls[1].op = result.op /\ result.calls[1].path = RootPath
        /\ (result.b.token # <<>> \/ ~AuthFailedIn(result.calls)) =>
              /\ result.secret = result.answer.secret
              /\ result.err = IF result.answer.err.nil THEN NilErr
                              ELSE narrowVaultError(result.answer.err)

\* a Delete on a backend with no token whose login was refused
C23_Witness ==
    /\ result.op = "Delete"
    /\ result.b.token = <<>>
    /\ Len(result.calls) = 1
    /\ IsLogin(result.calls[1])
    /\ result.calls[1].err = PermissionDeniedErr
    /\ result.err = ErrAuthFailed(PermissionDeniedErr)
    /\ result.secret.nil

C26_OneLoginPerMethod ==
    (result.op = "Auth" /\ result.b.token = <<>> /\ authMethod \in AuthMethods) =>
        /\ Len(result.calls) = 1
        /\ result.calls[1].op = "Write"
        /\ (result.calls[1].err.nil /\ result.calls[1].secret /\ ~result.panic) =>
              result.err = NilErr /\ token # <<>>

\* The text of the raw error e says the phrase, behind "* " or not
Says(e, phrase) == e.types = <<>> /\ phrase \in e.cause.said

\* narrowVaultError was given a raw error
NarrowedRaw == result.op = "narrowVaultError" /\ result.given.types = <<>>

C28_NarrowIdempotent ==
    (/\ result.op = "narrowVaultError"
     /\ \E err \in RawTexts : result.given = narrowVaultError(err))
        => /\ result.err = result.given
           /\ Len(result.err.types) = Len(result.given.types)
           /\ result.err.types[1] = result.given.types[1]

\* The logins the tasks 1..n have issued between them
RECURSIVE LoginsIssued(_)
LoginsIssued(n) == IF n = 0 THEN 0 ELSE tasks[n].logins + LoginsIssued(n - 1)

\* C29: when backend operations run beside each other on a backend whose token
\* is empty, at most one login is in flight at any time, and once a login has
\* succeeded exactly one login has been issued in all: the late arrivals use
\* the token it brought.
C29_OneLoginInFlight ==
    /\ Cardinality({t \in DOMAIN tasks : tasks[t].at = "login"}) <= 1
    /\ (tasks # NoTasks /\ token = LoginSecret(<<"t", "1">>).Auth.ClientToken)
          => LoginsIssued(Len(tasks)) = 1

\* A task whose request was cancelled sends a Read or a List to the remote store
CallsAfterCancel ==
    \E t \in DOMAIN tasks :
       /\ tasks[t].cancelled
       /\ tasks[t].at # "call"
       /\ t \in DOMAIN tasks'
       /\ tasks'[t].at = "call"

\* C30: the cancellation of a kernel operation reaches the backend call: once
\* the request is cancelled its operation issues no further backend Read or List.
C30_CancelStopsCalls == [][~CallsAfterCancel]_vars

-----------------------------------------------------------------------------
(* The mount command: construction, Mount and Unmount *)

\* fs.New has returned a host in this step
Constructed == phase = "new" /\ phase' = "ready"

\* C31: constructing the host authenticates eagerly.  A host is returned only
\* together with the outcome of a call of Auth that returned no error: if no
\* token was supplied, the login answered without an error and with a secret,
\* whose client token the backend then holds, and the client has been given the
\* backend's token.  When construction fails the process ends before the signal
\* task is started and before Mount is called.
C31_EagerAuth ==
    /\ [][Constructed =>
            /\ \E lr \in LoginChoices(Backend(token, clientToken), authMethod) :
                  LET a == Auth(Backend(token, clientToken), authMethod, lr)
                  IN /\ ~a.panic /\ a.err.nil
                     /\ token' = a.b.token /\ clientToken' = a.b.client
                     /\ token = <<>> =>
                           /\ lr.err.nil /\ ~lr.secret.nil
                           /\ token' = lr.secret.s.Auth.ClientToken
            /\ clientToken' = token']_vars
    /\ [](phase = "failed" =>
            /\ tasks.main = "New" /\ tasks.handler = "none"
            /\ tasks.got = "none" /\ ~tasks.kernel)

\* no token was supplied, construction failed and the process has ended with
\* the main task still before Mount
C31_Witness ==
    /\ phase = "failed"
    /\ token = <<>>
    /\ authMethod = "cert"
    /\ tasks.exit = "fatal"
    /\ tasks.main = "New"

\* The steps of Unmount in the order of its statements
UnmountOrder == <<"fuse.Unmount", "Close", "Ready">>

\* C32: Unmount does its steps in the order kernel unmount, close, wait for
\* the ready signal, report the captured mount error, and stops at the first
\* one that fails: after a failed kernel unmount the connection is not closed
\* and stays recorded, after a failed Close the ready signal is not awaited,
\* and nil is returned only when the kernel unmount and the Close succeeded
\* and no mount error was captured.
C32_UnmountOrder ==
    /\ tasks.steps = SubSeq(UnmountOrder, 1, Len(tasks.steps))
    /\ tasks.handler = "Close" => tasks.steps = <<"fuse.Unmount">> /\ ~tasks.kernel
    /\ tasks.handler = "Ready" => tasks.steps = <<"fuse.Unmount", "Close">> /\ tasks.closed
    /\ tasks.err = "fuse.Unmount" =>
          /\ tasks.steps = <<"fuse.Unmount">>
          /\ ~tasks.closed
          /\ tasks.conn = "conn"
    /\ tasks.err = "Close" =>
          /\ tasks.steps = <<"fuse.Unmount", "Close">>
          /\ ~tasks.closed
    /\ tasks.err = "MountError" => tasks.steps = UnmountOrder /\ tasks.mountError
    /\ tasks.handler = "done" =>
          /\ tasks.steps = UnmountOrder
          /\ tasks.err = "none"
          /\ ~tasks.kernel /\ tasks.closed /\ ~tasks.mountError

\* Unmount has returned nil after its three steps
C32_Witness ==
    /\ tasks.handler = "done"
    /\ tasks.unmounts = 1
    /\ tasks.steps = UnmountOrder

\* The process is mounted: the kernel mount is complete and in place and Mount
\* has recorded its connection
Mounted == tasks.conn = "conn" /\ tasks.kernel /\ tasks.ready

\* C33: after an interrupt or terminate signal is delivered to a mounted
\* process Unmount is invoked exactly once; if its steps succeed the serve
\* loop inside Mount eventually returns and the process terminates, and the
\* kernel mount is not left in place.
C33_SignalUnmounts ==
    /\ [](tasks.unmounts <= 1)
    /\ (tasks.signals > 0 /\ Mounted) ~> (tasks.unmounts = 1)
    /\ (tasks.handler = "done") ~> (tasks.exit # "running")
    /\ [](tasks.handler = "done" => ~tasks.kernel)

\* C33 with the signal already put into c, that is, sent after the signal task
\* has called Notify: this much holds under SpecMountFair.
C33_AfterNotify ==
    /\ [](tasks.unmounts <= 1)
    /\ (tasks.queued > 0 /\ Mounted) ~> (tasks.unmounts = 1)
    /\ (tasks.handler = "done") ~> (tasks.exit # "running")
    /\ [](tasks.handler = "done" => ~tasks.kernel)

\* Unmount tests v.conn in this step and finds it nil
UnmountFindsNil ==
    /\ tasks.handler = "Unmount"
    /\ tasks'.handler # "Unmount"
    /\ tasks.conn = "nil"

\* C38: Mount and the Unmount of the signal task run beside each other on the
\* host's conn field.  An Unmount that tests the field before Mount has
\* recorded the connection, or after fuse.Mount failed, returns "not mounted"
\* and does no kernel unmount and no Close; a mount that Mount establishes is
\* not released by that Unmount.
C38_UnmountBeforeMount ==
    /\ [][UnmountFindsNil =>
            /\ tasks'.err = "not mounted"
            /\ tasks'.handler = "Fatal"
            /\ tasks'.steps = <<>>
            /\ tasks'.kernel = tasks.kernel
            /\ tasks'.closed = tasks.closed]_vars
    /\ [](tasks.err = "not mounted" =>
            /\ tasks.unmounts = 1
            /\ tasks.steps = <<>>
            /\ ~tasks.closed
            /\ (tasks.got = "conn" /\ ~tasks.mountError) => tasks.kernel)

\* Unmount has returned "not mounted", the process has ended, and the kernel
\* mount that Mount established is in place
C38_Witness ==
    /\ tasks.err = "not mounted"
    /\ tasks.exit = "fatal"
    /\ tasks.got = "conn"
    /\ tasks.kernel
    /\ tasks.steps = <<>>

-----------------------------------------------------------------------------
(* The backend's token *)

C35_AuthTotal ==
    result.op = "Auth" =>
        /\ ~result.panic
        /\ \/ result.err = NilErr
           \/ result.err.types[1] = "vaultapi.ErrAuthFailed"
        /\ result.err = NilErr => token # <<>>

-----------------------------------------------------------------------------
(* A path that is both a secret and a directory; the calls of one operation *)

\* The remote store holds a secret at the path and would list keys under it
ReadableAndListable(path) ==
    /\ ~HeldAt(path).read.secret.nil
    /\ ~HeldAt(path).list.secret.nil

\* The names of a sequence of dirents
DirentNames(dirents) == {dirents[i].Name : i \in DOMAIN dirents}

\* C36: a node whose path is both readable and listable in the remote store is
\* always classified Secret, never Directory: List is not called, ReadDirAll
\* shows the seven field names and nothing else, and no Lookup at the node
\* returns a Secret Directory Node, so the children the listing names are not
\* reached through it.
C36_SecretWins ==
    (result.op \in KernelOps /\ ReadableAndListable(result.path)) =>
        /\ result.type = SecretTypeSecret
        /\ \A i \in 1..Len(result.calls) : result.calls[i].op # "List"
        /\ result.op = "ReadDirAll" =>
              /\ result.err = "nil"
              /\ Len(result.dirents) = Cardinality(EntryNames)
              /\ DirentNames(result.dirents) = EntryNames
        /\ result.op = "Lookup" =>
              /\ result.child.kind # "SecretDir"
              /\ result.childType = "none"
              /\ result.name \notin EntryNames =>
                    result.err = "ENOENT" /\ result.child = NoNode

\* the store holds a secret at root/admin and lists k1 under it; the Lookup of
\* k1 at that node fails with ENOENT after one Read
C36_Witness ==
    /\ result.op = "Lookup"
    /\ result.path = AdminPath
    /\ result.name = KeyPlain
    /\ ReadableAndListable(AdminPath)
    /\ HeldAt(AdminPath).list = Listed
    /\ result.type = SecretTypeSecret
    /\ Len(result.calls) = 1
    /\ result.err = "ENOENT"

\* The error vaultBackend.Read returned for the remote call c
Narrowed(c) == IF c.err.nil THEN NilErr ELSE narrowVaultError(c.err)

\* calls are the calls of one probe of path: a Read, and then at most a List
ProbeOf(calls, path) ==
    /\ Len(calls) \in 1..2
    /\ calls[1].op = "Read" /\ calls[1].path = path
    /\ Len(calls) = 2 => calls[2].op = "List" /\ calls[2].path = path /\ ~calls[1].secret

\* The List of a probe was made after a Read that ended with VaultInaccessible
ListAfterInaccessible(calls) ==
    /\ Len(calls) = 2
    /\ Wraps(Narrowed(calls[1]), TypeErrVaultInaccessible)

\* The calls of an operation at its own path, and at the path of the child asked for
CallsAtOwn == SelectSeq(result.calls, LAMBDA c : c.path = result.path)
CallsAtChild == SelectSeq(result.calls, LAMBDA c : c.path = PathJoin(result.path, result.name))

\* C37 without its clause on VaultInaccessible: one probe makes one Read and then
\* at most one List of the same path, the List only after a Read without a
\* secret; Attr and ReadDirAll make at most 2 calls and Lookup at most 4, the
\* child's only after the node's own probe has returned Directory.
C37_CallCounts ==
    result.op \in KernelOps =>
        /\ result.calls = CallsAtOwn \o CallsAtChild
        /\ ProbeOf(CallsAtOwn, result.path)
        /\ result.op \in {"Attr", "ReadDirAll"} => Len(result.calls) <= 2
        /\ result.op = "Lookup" => Len(result.calls) <= 4
        /\ CallsAtChild # <<>> =>
              /\ result.op = "Lookup"
              /\ result.type = SecretTypeDirectory
              /\ ProbeOf(CallsAtChild, PathJoin(result.path, result.name))

\* C37: one probe issues at most one Read followed by at most one List of the
\* same path, the List only after the Read has completed without a
\* VaultInaccessible error and without a secret; so Attr and ReadDirAll issue
\* at most 2 backend calls and Lookup at most 4, and Lookup probes the child
\* path only after the node's own probe has returned Directory.
C37_ProbeCalls ==
    /\ C37_CallCounts
    /\ result.op \in KernelOps =>
          /\ ~ListAfterInaccessible(CallsAtOwn)
          /\ ~ListAfterInaccessible(CallsAtChild)

====
